---- MODULE Spec2Model ----
(***************************************************************************)
(* A model of postero's synchronisation engine: the outbound queue         *)
(* (src/src/zotero/sync_queue.rs), the event-driven worker                 *)
(* (src/src/zotero/sync_worker.rs, src/src/bin/sync-worker.rs) and the     *)
(* per-library full sync (src/src/zotero/library.rs).                      *)
(*                                                                         *)
(* Time is counted in minutes.  Every database statement and every remote  *)
(* call is a suspension point of the async code, so each is one step.      *)
(***************************************************************************)
EXTENDS Integers, Sequences, FiniteSets, TLC

VARIABLES
    now,          \* the database clock NOW(), in minutes
    sync_queue,   \* table sync_queue: id -> row
    next_id,      \* the serial that numbers sync_queue rows
    libraries,    \* tables libraries + sync_libraries: library -> row
    items,        \* table items: <<library, key>> -> row
    collections,  \* table collections: <<library, key>> -> row
    cloud,        \* the remote service: library -> its state
    worker,       \* the sync-worker processes: worker -> its local state
    role,         \* worker -> "main": a sync-worker process; "api": another caller
    syncer,       \* the batch sync process: its position and its Library struct
    tags,         \* table tags: the set of <<library, tag>>
    object_store, \* the object store: attachments/{key}/{filename} -> MD5 of the blob
    run,          \* one run of the sync binary over the libraries of the key
    call,         \* one remote write of the client: request, response, result
    quiet         \* what happened last: "changed": a local or remote edit;
                  \* "failed": a sync returned an error; "running": a sync
                  \* started after that; "synced": a sync has completed and
                  \* nothing was edited since; "partial": the same, but the
                  \* sync logged errors and went on

vars == <<now, sync_queue, next_id, libraries, items, collections, cloud,
          worker, role, syncer, tags, object_store, quiet, run, call>>

-----------------------------------------------------------------------------
(* Bounds of the model *)

MaxEntries == 1        \* rows the triggers insert while two workers run
MaxBatchEntries == 1   \* rows the triggers insert while one worker or caller runs
MaxMinutes == 1        \* minutes the clock advances one at a time
MaxCloudVersion == 1   \* successful remote writes per library
MaxRemoteVersion == 2  \* writes of other clients to a library pulled from empty
MaxQueueRows == 2      \* rows in the queue under direct calls of its API, two callers
MaxBacklog == 52       \* rows in the backlog a fetch meets
MaxPending == 2        \* rows queued for one worker between and during its ticks

(* Program constants *)

DefaultBatchSize == 50   \* SyncWorkerConfig::default
ApiBatchLimit == 50      \* main: (*size).min(50)
CleanupDays == 7         \* SyncWorkerConfig::default
DayMinutes == 1440       \* INTERVAL '1 day'
BackoffMinutes == 1      \* INTERVAL '1 minute'
BackoffBase == 2         \* POWER(2, retry_count)

TriggerMaxRetries == 5   \* the max_retries the triggers give a row

NULL == -1               \* SQL NULL of a timestamp column

Workers == {"w1", "w2"}
Libs == {<<1, "user">>, <<1, "group">>}
Keys == {"K1"}
TagNames == {"T1"}
EntityTypes == {"item", "collection"}
Operations == {"insert", "update", "delete"}
Priorities == {0, 1}
DefaultPriority == 0
Directions == {"none", "tocloud", "tolocal", "bothcloud", "bothlocal", "bothmanual"}
OutgoingModes == {"event_driven", "manual"}

Min(a, b) == IF a < b THEN a ELSE b
Max(a, b) == IF a > b THEN a ELSE b

RECURSIVE Pow(_, _)
Pow(b, e) == IF e <= 0 THEN 1 ELSE b * Pow(b, e - 1)

Range(s) == {s[i] : i \in DOMAIN s}

-----------------------------------------------------------------------------
(* Entity rows of the local store *)

\* What an entity carries besides its key and its version: the data and,
\* for an attachment item, the link mode and the MD5 of its file.  The data
\* is "base" as first shared, "local" once edited in the local store and
\* "remote" once edited by another client of the remote library.
NoContent == [data |-> "none", link_mode |-> "none", md5 |-> "none"]

\* The content of an entity that is no attachment.
Plain(data) == [NoContent EXCEPT !.data = data]

ContentOf(row) == [data |-> row.data, link_mode |-> row.link_mode, md5 |-> row.md5]

\* A row of items or collections that is not flagged deleted.
EntityRow(sync, version, content) ==
    [sync |-> sync, version |-> version, deleted |-> FALSE,
     data |-> content.data, link_mode |-> content.link_mode, md5 |-> content.md5]

NoRow == EntityRow("absent", 0, NoContent)

\* A row in step with the remote copy at version v.
SyncedRow(v) == EntityRow("synced", v, Plain("base"))

-----------------------------------------------------------------------------
(* SyncQueue: src/src/zotero/sync_queue.rs *)

\* A row as the triggers insert it.
SyncQueueEntry(id, lib, etype, key, op, prio, t) ==
    [id |-> id, entity_type |-> etype, entity_key |-> key,
     library_id |-> lib[1], library_type |-> lib[2],
     operation |-> op, priority |-> prio,
     retry_count |-> 0, max_retries |-> TriggerMaxRetries,
     next_retry_at |-> t, last_error |-> "null",
     created_at |-> t, processed_at |-> NULL]

\* Rows row-locked by a fetch_pending statement that is still executing.
Locked == UNION {{e.id : e \in Range(worker[w].batch)} :
                    w \in {x \in Workers : worker[x].pc = "fetch_tx"}}

\* The WHERE clause had it no test of retry_count.
ReadyIgnoringRetries(q, t, id) ==
    /\ q[id].processed_at = NULL
    /\ q[id].next_retry_at <= t

\* WHERE clause of fetch_pending.
Ready(q, t, id) ==
    /\ q[id].processed_at = NULL
    /\ q[id].retry_count < q[id].max_retries
    /\ q[id].next_retry_at <= t

\* The rows selected had the statement not bound library_type.
EligibleAnyType(q, t, library_id, library_type) ==
    {id \in DOMAIN q : /\ q[id].library_id = library_id
                       /\ Ready(q, t, id)}

Eligible(q, t, library_id, library_type) ==
    {id \in DOMAIN q : /\ q[id].library_id = library_id
                       /\ q[id].library_type = library_type
                       /\ Ready(q, t, id)}

\* ORDER BY priority DESC, created_at DESC.
BeforeNewestFirst(a, b) ==
    \/ a.priority > b.priority
    \/ a.priority = b.priority /\ a.created_at > b.created_at

\* ORDER BY priority DESC, created_at ASC.
Before(a, b) ==
    \/ a.priority > b.priority
    \/ a.priority = b.priority /\ a.created_at < b.created_at

\* ORDER BY ... LIMIT n: every result the database may return (rows that tie
\* in the sort key come in any order).
RECURSIVE TopN(_, _, _)
TopN(q, S, n) ==
    IF n <= 0 \/ S = {} THEN {<< >>}
    ELSE UNION {{<<q[m]>> \o s : s \in TopN(q, S \ {m}, n - 1)} :
                   m \in {x \in S : \A y \in S : ~Before(q[y], q[x])}}

\* fetch_pending: the possible results; a negative LIMIT is a database error.
fetch_pending(library_id, library_type, batch_size) ==
    IF batch_size < 0
    THEN {[err |-> TRUE, rows |-> << >>]}
    ELSE {[err |-> FALSE, rows |-> s] :
            s \in TopN(sync_queue,
                       Eligible(sync_queue, now, library_id, library_type) \ Locked,
                       batch_size)}

\* The UPDATE had it matched no row.
mark_completed_no_row(q, t, entry_id) == q

mark_completed(q, t, entry_id) ==
    [id \in DOMAIN q |->
        IF id = entry_id THEN [q[id] EXCEPT !.processed_at = t] ELSE q[id]]

\* The interval had the UPDATE raised 2 to the incremented count.
BackoffAfterIncrement(retry_count) == BackoffMinutes * Pow(BackoffBase, retry_count + 1)

Backoff(retry_count) == BackoffMinutes * Pow(BackoffBase, retry_count)

\* The UPDATE had it matched the rows of the entry's library.
mark_failed_library(q, t, entry_id, error) ==
    [id \in DOMAIN q |->
        IF q[id].library_id = q[entry_id].library_id
              /\ q[id].library_type = q[entry_id].library_type
        THEN [q[id] EXCEPT !.retry_count = q[id].retry_count + 1,
                           !.last_error = error,
                           !.next_retry_at = t + Backoff(q[id].retry_count)]
        ELSE q[id]]

mark_failed(q, t, entry_id, error) ==
    [id \in DOMAIN q |->
        IF id = entry_id
        THEN [q[id] EXCEPT !.retry_count = q[id].retry_count + 1,
                           !.last_error = error,
                           !.next_retry_at = t + Backoff(q[id].retry_count)]
        ELSE q[id]]

get_libraries_with_pending ==
    {l \in Libs : /\ \E id \in DOMAIN sync_queue :
                        /\ sync_queue[id].library_id = l[1]
                        /\ sync_queue[id].library_type = l[2]
                        /\ Ready(sync_queue, now, id)
                  /\ libraries[l].outgoing_sync = "event_driven"}

\* The DELETE had it no test of processed_at IS NOT NULL.
ExpiredOrPending(q, t, days_to_keep) ==
    {id \in DOMAIN q : \/ q[id].processed_at = NULL
                       \/ q[id].processed_at < t - DayMinutes * days_to_keep}

\* The rows cleanup_old_entries deletes.
Expired(q, t, days_to_keep) ==
    {id \in DOMAIN q : /\ q[id].processed_at # NULL
                       /\ q[id].processed_at < t - DayMinutes * days_to_keep}

cleanup_old_entries(q, t, days_to_keep) ==
    [id \in DOMAIN q \ Expired(q, t, days_to_keep) |-> q[id]]

-----------------------------------------------------------------------------
(* ZoteroClient, the remote writes: src/src/zotero/client.rs *)

UploadStatuses == {200, 412, 500}
DeleteStatuses == {204, 412, 500}

ErrorText(status) ==
    CASE status = 412 -> "api_412"
      [] status = 429 -> "api_429"
      [] status = 500 -> "api_500"
      [] status = 503 -> "api_503"
      [] OTHER -> "api_other"

\* The upload had it counted its own write and not read the header.
upload_result_counting(status, lmv, library_version) ==
    IF status \in {200, 201, 304}
    THEN [ok |-> TRUE, error |-> "null", version |-> library_version + 1]
    ELSE [ok |-> FALSE, error |-> ErrorText(status), version |-> library_version]

\* What upload_item / upload_collection return for a response with this
\* status and Last-Modified-Version header (<< >> when the header is absent).
upload_result(status, lmv, library_version) ==
    IF status \in {200, 201}
    THEN [ok |-> TRUE, error |-> "null",
          version |-> IF lmv = << >> THEN library_version + 1 ELSE lmv[1]]
    ELSE IF status = 304
    THEN [ok |-> TRUE, error |-> "null", version |-> library_version]
    ELSE [ok |-> FALSE, error |-> ErrorText(status), version |-> library_version]

\* What delete_item / delete_collection return.
delete_result(status, lmv, library_version) ==
    IF status = 204
    THEN [ok |-> TRUE, error |-> "null",
          version |-> IF lmv = << >> THEN library_version + 1 ELSE lmv[1]]
    ELSE [ok |-> FALSE, error |-> ErrorText(status), version |-> library_version]

\* No remote write is going on.  `headers` are the response's
\* Last-Modified-Version, Backoff and Retry-After (<< >> when absent),
\* `sends` counts the requests sent and `slept` the seconds slept.
NoCall ==
    [pc |-> "idle", op |-> "upload_item", library_version |-> 0, status |-> 0,
     headers |-> [lmv |-> << >>, backoff |-> << >>, retry_after |-> << >>],
     sends |-> 0, slept |-> 0,
     result |-> [ok |-> FALSE, error |-> "null", version |-> 0]]

WriteOps == {"upload_item", "upload_collection", "delete_item", "delete_collection"}
UploadOps == {"upload_item", "upload_collection"}

\* The statuses a write is answered with.
WriteStatuses == {200, 201, 204, 304, 412, 429, 500, 503}

\* A Backoff or Retry-After header: absent, or a number of seconds.
HeaderSeconds == {<< >>, <<1>>}

\* The seconds handle_backoff / handle_retry sleep for the header h.
SleepFor(h) == IF h = << >> THEN 0 ELSE h[1]

\* The match on the status at the end of a write.
write_result(op, status, lmv, library_version) ==
    IF op \in UploadOps
    THEN upload_result(status, lmv, library_version)
    ELSE delete_result(status, lmv, library_version)

\* The variables a remote write alone does not change.
CallUnchanged ==
    UNCHANGED <<now, sync_queue, next_id, libraries, items, collections, cloud,
                worker, role, syncer, tags, object_store, quiet, run>>

\* request.send().await?: the request is sent and answered, or the
\* transport fails and the error is returned.
SendRequest ==
    /\ call.pc = "send"
    /\ \/ \E status \in WriteStatuses, b \in HeaderSeconds, r \in HeaderSeconds,
             lmv \in {<< >>} \cup {<<n>> : n \in 1..(MaxCloudVersion + 2)} :
             call' = [call EXCEPT
                         !.pc = "handle_rate_limiting",
                         !.sends = @ + 1,
                         !.status = status,
                         !.headers = [lmv |-> lmv, backoff |-> b, retry_after |-> r]]
       \/ call' = [call EXCEPT
                       !.pc = "returned",
                       !.sends = @ + 1,
                       !.result = [ok |-> FALSE, error |-> "http",
                                   version |-> call.library_version]]
    /\ CallUnchanged

\* handle_rate_limiting: sleep for the Backoff header, then for Retry-After.
HandleRateLimiting ==
    /\ call.pc = "handle_rate_limiting"
    /\ call' = [call EXCEPT
                    !.pc = "match",
                    !.slept = @ + SleepFor(call.headers.backoff)
                                + SleepFor(call.headers.retry_after)]
    /\ CallUnchanged

\* match response.status().as_u16(): the write returns.
MatchStatus ==
    /\ call.pc = "match"
    /\ call' = [call EXCEPT
                    !.pc = "returned",
                    !.result = write_result(call.op, call.status, call.headers.lmv,
                                            call.library_version)]
    /\ CallUnchanged

\* The remote library before any write: nothing stored.
NoCloud ==
    [version |-> 0,
     items |-> [k \in Keys |-> NULL],
     collections |-> [k \in Keys |-> NULL],
     content |-> [x \in EntityTypes \X Keys |-> NoContent],
     files |-> [k \in Keys |-> "none"],
     tags |-> [t \in TagNames |-> NULL],
     deleted |-> {}]

\* The remote library after a write of an entity that made version v.
CloudPut(c, etype, key, v, content) ==
    IF etype = "item"
    THEN [c EXCEPT !.version = v, !.items[key] = v,
                   !.content[<<etype, key>>] = content,
                   !.deleted = @ \ {<<etype, key>>}]
    ELSE [c EXCEPT !.version = v, !.collections[key] = v,
                   !.content[<<etype, key>>] = content,
                   !.deleted = @ \ {<<etype, key>>}]

\* The remote library after a delete of an entity that made version v.
CloudDelete(c, etype, key, v) ==
    IF etype = "item"
    THEN [c EXCEPT !.version = v, !.items[key] = NULL,
                   !.content[<<etype, key>>] = NoContent,
                   !.files[key] = "none",
                   !.deleted = @ \cup {<<etype, key>>}]
    ELSE [c EXCEPT !.version = v, !.collections[key] = NULL,
                   !.content[<<etype, key>>] = NoContent,
                   !.deleted = @ \cup {<<etype, key>>}]

\* The remote service answering a write that carries
\* If-Unmodified-Since-Version: v.  A write that succeeds advances the
\* library's Last-Modified-Version by one; 412 is sent only when the library
\* has moved past v.
Responses(l, v, statuses) ==
    {r \in [status : statuses, cloud_version : 0..MaxCloudVersion] :
        /\ r.status \in {200, 204} =>
              /\ cloud[l].version < MaxCloudVersion
              /\ r.cloud_version = cloud[l].version + 1
        /\ r.status \notin {200, 204} => r.cloud_version = cloud[l].version
        /\ r.status = 412 => v < cloud[l].version}

-----------------------------------------------------------------------------
(* Item::update_cloud and Collection::update_cloud:                        *)
(* src/src/zotero/item.rs, src/src/zotero/collection.rs                    *)

\* The local row had it been removed whatever the remote answered.
DeletedLocallyFirst(r, row, l, etype, key, v) ==
    LET res == delete_result(r.status, <<r.cloud_version>>, v)
    IN  [error |-> res.error, sent |-> TRUE, version |-> res.version,
         row |-> NoRow,
         cloud |-> IF res.ok THEN CloudDelete(cloud[l], etype, key, r.cloud_version)
                   ELSE cloud[l]]

\* The outcome of a remote delete answered by r.
Deleted(r, row, l, etype, key, v) ==
    LET res == delete_result(r.status, <<r.cloud_version>>, v)
    IN  [error |-> res.error, sent |-> TRUE, version |-> res.version,
         row |-> IF res.ok THEN NoRow ELSE row,
         cloud |-> IF res.ok THEN CloudDelete(cloud[l], etype, key, r.cloud_version)
                   ELSE cloud[l]]

\* The upload stored the library version it sent, not the one the server
\* assigned.
UploadedKeepingVersion(r, row, l, etype, key, v) ==
    LET res == upload_result(r.status, <<r.cloud_version>>, v)
    IN  [error |-> res.error, sent |-> TRUE, version |-> res.version,
         row |-> IF res.ok THEN [row EXCEPT !.sync = "synced", !.version = v] ELSE row,
         cloud |-> IF res.ok
                   THEN CloudPut(cloud[l], etype, key, r.cloud_version, ContentOf(row))
                   ELSE cloud[l]]

\* The failed upload had it reset the tracked version.
UploadedResettingVersion(r, row, l, etype, key, v) ==
    LET res == upload_result(r.status, <<r.cloud_version>>, v)
    IN  [error |-> res.error, sent |-> TRUE,
         version |-> IF res.ok THEN res.version ELSE 0,
         row |-> IF res.ok
                 THEN [row EXCEPT !.sync = "synced", !.version = res.version]
                 ELSE row,
         cloud |-> IF res.ok
                   THEN CloudPut(cloud[l], etype, key, r.cloud_version, ContentOf(row))
                   ELSE cloud[l]]

\* The outcome of an upload had its failure marked the row as synced.
UploadedMarkingSynced(r, row, l, etype, key, v) ==
    LET res == upload_result(r.status, <<r.cloud_version>>, v)
    IN  [error |-> res.error, sent |-> TRUE, version |-> res.version,
         row |-> [row EXCEPT !.sync = "synced", !.version = res.version],
         cloud |-> IF res.ok
                   THEN CloudPut(cloud[l], etype, key, r.cloud_version, ContentOf(row))
                   ELSE cloud[l]]

\* The outcome of a remote upload answered by r.
Uploaded(r, row, l, etype, key, v) ==
    LET res == upload_result(r.status, <<r.cloud_version>>, v)
    IN  [error |-> res.error, sent |-> TRUE, version |-> res.version,
         row |-> IF res.ok
                 THEN [row EXCEPT !.sync = "synced", !.version = res.version]
                 ELSE row,
         cloud |-> IF res.ok
                   THEN CloudPut(cloud[l], etype, key, r.cloud_version, ContentOf(row))
                   ELSE cloud[l]]

\* The outcomes of uploading one local row with the tracked version v: the
\* call's result, whether a request was sent, the new tracked version, the
\* row afterwards and the remote library afterwards.
entity_update_cloud(row, l, etype, key, v) ==
    IF row.deleted
    THEN {Deleted(r, row, l, etype, key, v) : r \in Responses(l, v, DeleteStatuses)}
    ELSE IF row.sync \in {"new", "modified"}
    THEN {Uploaded(r, row, l, etype, key, v) : r \in Responses(l, v, UploadStatuses)}
    ELSE {[error |-> "null", sent |-> FALSE, version |-> v, row |-> row,
           cloud |-> cloud[l]]}

\* Item::update_cloud.
update_cloud(row, l, key, v) == entity_update_cloud(row, l, "item", key, v)

\* Collection::update_cloud.
collection_update_cloud(row, l, key, v) == entity_update_cloud(row, l, "collection", key, v)

-----------------------------------------------------------------------------
(* SyncWorker: src/src/zotero/sync_worker.rs *)

LibOf(e) == <<e.library_id, e.library_type>>

\* sync_item / sync_collection on the row `row` of the entry's entity, whose
\* update_cloud has the outcomes `uploads`.
sync_entity(e, row, v, uploads) ==
    IF e.operation = "delete"
    THEN {Deleted(r, row, LibOf(e), e.entity_type, e.entity_key, v) :
            r \in Responses(LibOf(e), v, DeleteStatuses)}
    ELSE IF row.sync = "absent"
    THEN {[error |-> "not_found", sent |-> FALSE, version |-> v, row |-> row,
           cloud |-> cloud[LibOf(e)]]}
    ELSE uploads

sync_item(e, v) ==
    LET row == items[<<LibOf(e), e.entity_key>>]
    IN  sync_entity(e, row, v, update_cloud(row, LibOf(e), e.entity_key, v))

sync_collection(e, v) ==
    LET row == collections[<<LibOf(e), e.entity_key>>]
    IN  sync_entity(e, row, v, collection_update_cloud(row, LibOf(e), e.entity_key, v))

\* main had it not clamped the argument.
main_batch_size_unclamped(arg) ==
    IF arg = << >> THEN DefaultBatchSize ELSE arg[1]

\* main of sync-worker: the --batch-size argument (<< >> when not given).
main_batch_size(arg) ==
    IF arg = << >> THEN DefaultBatchSize ELSE Min(arg[1], ApiBatchLimit)

CliBatchSizes == {<< >>, <<0>>, <<1>>, <<60>>}

\* The entries had they been processed in the order fetch_pending returned.
PartitionKeepingOrder(entries) == entries

\* entries.into_iter().partition(|e| e.entity_type == "collection"):
\* the collection entries, then the item entries.
Partition(entries) ==
    SelectSeq(entries, LAMBDA e : e.entity_type = "collection")
        \o SelectSeq(entries, LAMBDA e : e.entity_type # "collection")

\* The worker's record once process_library has returned to process_pending,
\* with `libs` still to visit: the locals of process_library are gone.
Returned(rec, libs) ==
    [rec EXCEPT !.pc = IF libs = {} THEN "idle" ELSE "library",
                !.libs = libs,
                !.lib = <<1, "user">>,
                !.batch = << >>,
                !.library_version = 0,
                !.error = "null",
                !.sent = FALSE]

\* process_pending: get_libraries_with_pending.
Poll(w) ==
    /\ worker[w].pc = "idle"
    /\ LET libs == get_libraries_with_pending
       IN  worker' = [worker EXCEPT ![w].libs = libs,
                                    ![w].pc = IF libs = {} THEN "idle" ELSE "library"]
    /\ UNCHANGED <<now, sync_queue, next_id, libraries, items, collections, cloud,
                   role, syncer, tags, object_store, quiet, run, call>>

\* The fetch_pending statement runs and row-locks the rows it selects.
Fetch(w, l, batch_size, rest) ==
    \E r \in fetch_pending(l[1], l[2], batch_size) :
       worker' = [worker EXCEPT
                     ![w] = IF r.err
                            THEN Returned(@, rest)
                            ELSE [@ EXCEPT !.libs = rest,
                                           !.lib = l,
                                           !.batch = r.rows,
                                           !.batch_size = batch_size,
                                           !.pc = "fetch_tx"]]

\* process_library: fetch_pending for one of the libraries with pending work.
FetchSelect(w) ==
    /\ worker[w].pc = "library"
    /\ \E l \in worker[w].libs :
          Fetch(w, l, worker[w].batch_size, worker[w].libs \ {l})
    /\ UNCHANGED <<now, sync_queue, next_id, libraries, items, collections, cloud,
                   role, syncer, tags, object_store, quiet, run, call>>

\* The statement was executed on the pool (fetch_all(&self.db)), outside any
\* transaction: its row locks end with it, and fetch_pending returns the rows.
FetchReturn(w) ==
    /\ worker[w].pc = "fetch_tx"
    /\ worker' = [worker EXCEPT
                     ![w] = IF worker[w].batch = << >>
                            THEN Returned(@, worker[w].libs)
                            ELSE [@ EXCEPT !.pc = "version"]]
    /\ UNCHANGED <<now, sync_queue, next_id, libraries, items, collections, cloud,
                   role, syncer, tags, object_store, quiet, run, call>>

\* process_library: get_library_version, then the partition by entity type.
GetLibraryVersion(w) ==
    /\ worker[w].pc = "version"
    /\ worker' = [worker EXCEPT
                     ![w].library_version = libraries[worker[w].lib].item_version,
                     ![w].batch = Partition(@),
                     ![w].pc = "entry"]
    /\ UNCHANGED <<now, sync_queue, next_id, libraries, items, collections, cloud,
                   role, syncer, tags, object_store, quiet, run, call>>

\* process_entry, first half: sync_item or sync_collection.
SyncEntity(w) ==
    /\ worker[w].pc = "entry"
    /\ LET e == Head(worker[w].batch)
           l == LibOf(e)
           k == <<l, e.entity_key>>
       IN  \E o \in IF e.entity_type = "item"
                    THEN sync_item(e, worker[w].library_version)
                    ELSE sync_collection(e, worker[w].library_version) :
              /\ worker' = [worker EXCEPT ![w].error = o.error,
                                          ![w].sent = o.sent,
                                          ![w].library_version = o.version,
                                          ![w].pc = "mark"]
              /\ items' = IF e.entity_type = "item"
                          THEN [items EXCEPT ![k] = o.row] ELSE items
              /\ collections' = IF e.entity_type = "item"
                                THEN collections
                                ELSE [collections EXCEPT ![k] = o.row]
              /\ cloud' = [cloud EXCEPT ![l] = o.cloud]
    /\ UNCHANGED <<now, sync_queue, next_id, libraries, role, syncer, tags, object_store, quiet, run, call>>

\* process_entry, second half: mark_completed or mark_failed.  The UPDATE
\* waits while another statement holds the row's lock.
MarkEntry(w) ==
    /\ worker[w].pc = "mark"
    /\ LET e == Head(worker[w].batch)
       IN  /\ e.id \notin Locked
           /\ sync_queue' = IF worker[w].error = "null"
                            THEN mark_completed(sync_queue, now, e.id)
                            ELSE mark_failed(sync_queue, now, e.id, worker[w].error)
    /\ worker' = [worker EXCEPT
                     ![w].batch = Tail(@),
                     ![w].error = "null",
                     ![w].sent = FALSE,
                     ![w].pc = IF Tail(worker[w].batch) = << >> THEN "update" ELSE "entry"]
    /\ UNCHANGED <<now, next_id, libraries, items, collections, cloud, role, syncer,
                   tags, object_store, quiet, run, call>>

\* process_library: update_library_version.
UpdateLibraryVersion(w) ==
    /\ worker[w].pc = "update"
    /\ libraries' = [libraries EXCEPT
                        ![worker[w].lib].item_version = worker[w].library_version]
    /\ worker' = [worker EXCEPT ![w] = Returned(@, worker[w].libs)]
    /\ UNCHANGED <<now, sync_queue, next_id, items, collections, cloud, role, syncer,
                   tags, object_store, quiet, run, call>>

\* run: the periodic cleanup between two iterations.  The iteration counter
\* is left out: any iteration may be the hundredth.
Cleanup(w) ==
    /\ worker[w].pc = "idle"
    /\ Expired(sync_queue, now, CleanupDays) \cap Locked = {}
    /\ sync_queue' = cleanup_old_entries(sync_queue, now, CleanupDays)
    /\ UNCHANGED <<now, next_id, libraries, items, collections, cloud, worker, role, syncer,
                   tags, object_store, quiet, run, call>>

-----------------------------------------------------------------------------
(* Library::sync, the full sync of one library: src/src/zotero/library.rs *)

can_upload(direction) ==
    direction \in {"tocloud", "bothcloud", "bothlocal", "bothmanual"}

\* Every direction but none was taken to download.
can_download_unless_none(direction) == direction # "none"

can_download(direction) ==
    direction \in {"tolocal", "bothcloud", "bothlocal", "bothmanual"}

\* No sync is running.
\* `fetched` are the items the run has downloaded (its counter counts them),
\* `from_empty` whether the store held no row of the library when the run
\* began, `replaced` the fetched items that had unsynced local changes, `logged` the
\* errors it has logged and gone on after, `file_data` the MD5 of the bytes
\* its last file download received, `entered` what the store held of the
\* library when clear_local was entered.
NoSync ==
    [pc |-> "idle", lib |-> <<1, "user">>, direction |-> "none", sync_tags |-> FALSE,
     item_version |-> 0, collection_version |-> 0, tag_version |-> 0,
     new_item_version |-> 0, new_collection_version |-> 0,
     last_modified_version |-> 0, todo |-> {}, fetched |-> {}, logged |-> {},
     replaced |-> {}, file_data |-> "none", from_empty |-> FALSE,
     entered |-> << >>]

\* The keys of the rows of library l in `tbl`.
Stored(tbl, l) == {k \in Keys : tbl[<<l, k>>].sync # "absent"}

\* The keys of the rows of library l in `tbl` that wait for an upload.
Modified(tbl, l) == {k \in Keys : tbl[<<l, k>>].sync \in {"new", "modified"}}

\* The listing left out the keys changed at the version after v.
VersionsAfterNext(stored, v) == {k \in Keys : stored[k] # NULL /\ stored[k] > v + 1}

\* GET <resource>?format=versions&since=v: the keys changed since v.
VersionsSince(stored, v) == {k \in Keys : stored[k] # NULL /\ stored[k] > v}

\* get_item_version_local / get_collection_version_local.
version_local(tbl, l, k) == IF tbl[<<l, k>>].sync = "absent" THEN 0 ELSE tbl[<<l, k>>].version

\* The download left the rows with unsynced local changes as they were.
update_local_rows_keeping_local(tbl, l, etype, keys, c) ==
    LET stored == IF etype = "item" THEN c.items ELSE c.collections
    IN  [x \in DOMAIN tbl |->
            IF x[1] = l /\ x[2] \in keys /\ stored[x[2]] # NULL
                  /\ tbl[x].sync \notin {"new", "modified"}
            THEN EntityRow("synced", stored[x[2]], c.content[<<etype, x[2]>>])
            ELSE tbl[x]]

\* update_item_local / update_collection_local for the keys `keys`, with the
\* entities as the remote library holds them now.
update_local_rows(tbl, l, etype, keys, c) ==
    LET stored == IF etype = "item" THEN c.items ELSE c.collections
    IN  [x \in DOMAIN tbl |->
            IF x[1] = l /\ x[2] \in keys /\ stored[x[2]] # NULL
            THEN EntityRow("synced", stored[x[2]], c.content[<<etype, x[2]>>])
            ELSE tbl[x]]

\* The tombstone stamped the row with the version the feed came with.
try_delete_row_stamping(row, direction, last_modified_version) ==
    IF row.sync = "absent" \/ row.deleted
    THEN row
    ELSE [row EXCEPT !.deleted = TRUE, !.version = last_modified_version]

\* try_delete_item_local / try_delete_collection_local on one row, in a
\* library of this direction, with the version the deletions feed came with.
try_delete_row(row, direction, last_modified_version) ==
    IF row.sync = "absent" \/ row.deleted
    THEN row
    ELSE IF row.sync = "synced" \/ can_download(direction)
    THEN [row EXCEPT !.deleted = TRUE]
    ELSE [row EXCEPT !.version = last_modified_version, !.sync = "synced"]

\* try_delete_item_local / try_delete_collection_local for the keys `keys`.
try_delete_local(tbl, l, keys, direction, last_modified_version) ==
    [x \in DOMAIN tbl |->
        IF x[1] = l /\ x[2] \in keys
        THEN try_delete_row(tbl[x], direction, last_modified_version)
        ELSE tbl[x]]

\* sync: the library is loaded; direction none returns at once.
SyncStart(l) ==
    /\ syncer.pc = "idle"
    /\ syncer' = IF libraries[l].direction = "none"
                 THEN syncer
                 ELSE [NoSync EXCEPT
                          !.pc = "sync_collections",
                          !.lib = l,
                          !.direction = libraries[l].direction,
                          !.sync_tags = libraries[l].sync_tags,
                          !.item_version = libraries[l].item_version,
                          !.collection_version = libraries[l].collection_version,
                          !.tag_version = libraries[l].tag_version,
                          !.from_empty = (Stored(items, l) \cup Stored(collections, l) = {})]
    /\ quiet' = IF libraries[l].direction = "none" \/ quiet \in {"synced", "partial"}
                THEN quiet ELSE "running"
    /\ UNCHANGED <<now, sync_queue, next_id, libraries, items, collections, cloud,
                   worker, role, tags, object_store, run, call>>

\* sync_collections: sync_modified_collections selects the rows to upload.
SelectModifiedCollections ==
    /\ syncer.pc = "sync_collections"
    /\ syncer' = [syncer EXCEPT
                     !.pc = "upload_collection",
                     !.last_modified_version = syncer.collection_version,
                     !.todo = IF can_upload(syncer.direction)
                              THEN Modified(collections, syncer.lib) ELSE {}]
    /\ UNCHANGED <<now, sync_queue, next_id, libraries, items, collections, cloud,
                   worker, role, tags, object_store, quiet, run, call>>

\* sync_modified_collections: one collection.update_cloud; a failure is
\* logged and the loop goes on.
UploadCollection ==
    /\ syncer.pc = "upload_collection"
    /\ syncer.todo # {}
    /\ \E k \in syncer.todo :
       \E o \in collection_update_cloud(collections[<<syncer.lib, k>>], syncer.lib, k,
                                        syncer.last_modified_version) :
          /\ collections' = [collections EXCEPT ![<<syncer.lib, k>>] = o.row]
          /\ cloud' = [cloud EXCEPT ![syncer.lib] = o.cloud]
          /\ syncer' = [syncer EXCEPT
                           !.todo = @ \ {k},
                           !.logged = IF o.error = "null" THEN @ ELSE @ \cup {o.error},
                           !.last_modified_version =
                               IF o.error = "null" THEN o.version ELSE @]
    /\ UNCHANGED <<now, sync_queue, next_id, libraries, items, worker, role, tags, object_store, quiet, run, call>>

\* sync_collections: get_collections_version_cloud since collection_version.
ListCollections ==
    /\ syncer.pc = "upload_collection"
    /\ syncer.todo = {}
    /\ syncer' =
          IF can_download(syncer.direction)
          THEN [syncer EXCEPT
                   !.pc = "get_collections",
                   !.last_modified_version =
                       Max(syncer.collection_version, cloud[syncer.lib].version),
                   !.todo = {k \in VersionsSince(cloud[syncer.lib].collections,
                                                 syncer.collection_version) :
                               version_local(collections, syncer.lib, k)
                                  < cloud[syncer.lib].collections[k]}]
          ELSE [syncer EXCEPT
                   !.pc = "upload_items",
                   !.new_collection_version = syncer.collection_version]
    /\ UNCHANGED <<now, sync_queue, next_id, libraries, items, collections, cloud,
                   worker, role, tags, object_store, quiet, run, call>>

\* sync_collections: get_collections_cloud and update_collection_local.
GetCollections ==
    /\ syncer.pc = "get_collections"
    /\ collections' = update_local_rows(collections, syncer.lib, "collection",
                                        syncer.todo, cloud[syncer.lib])
    /\ syncer' = [syncer EXCEPT
                     !.pc = "upload_items",
                     !.new_collection_version = syncer.last_modified_version,
                     !.todo = {}]
    /\ UNCHANGED <<now, sync_queue, next_id, libraries, items, cloud, worker, role,
                   tags, object_store, quiet, run, call>>

\* upload_items: get_items_version_cloud since 0 gives the remote version,
\* then the rows to upload are selected.
SelectModifiedItems ==
    /\ syncer.pc = "upload_items"
    /\ syncer' =
          IF can_upload(syncer.direction)
          THEN [syncer EXCEPT
                   !.pc = "upload_item",
                   !.last_modified_version = cloud[syncer.lib].version,
                   !.todo = Modified(items, syncer.lib)]
          ELSE [syncer EXCEPT !.pc = "upload_item", !.todo = {}]
    /\ UNCHANGED <<now, sync_queue, next_id, libraries, items, collections, cloud,
                   worker, role, tags, object_store, quiet, run, call>>

\* upload_items: one item.update_cloud; a failure is logged and the loop
\* goes on.
UploadItem ==
    /\ syncer.pc = "upload_item"
    /\ syncer.todo # {}
    /\ \E k \in syncer.todo :
       \E o \in update_cloud(items[<<syncer.lib, k>>], syncer.lib, k,
                             syncer.last_modified_version) :
          /\ items' = [items EXCEPT ![<<syncer.lib, k>>] = o.row]
          /\ cloud' = [cloud EXCEPT ![syncer.lib] = o.cloud]
          /\ syncer' = [syncer EXCEPT
                           !.todo = @ \ {k},
                           !.logged = IF o.error = "null" THEN @ ELSE @ \cup {o.error},
                           !.last_modified_version = o.version]
    /\ UNCHANGED <<now, sync_queue, next_id, libraries, collections, worker, role,
                   tags, object_store, quiet, run, call>>

\* sync drops the version upload_items returns; download_items starts from
\* item_version and lists the trashed items, of which the remote library
\* holds none.
ListTrashedItems ==
    /\ syncer.pc = "upload_item"
    /\ syncer.todo = {}
    /\ syncer' =
          IF can_download(syncer.direction)
          THEN [syncer EXCEPT
                   !.pc = "list_items",
                   !.last_modified_version =
                       Max(syncer.item_version, cloud[syncer.lib].version)]
          ELSE [syncer EXCEPT
                   !.pc = "sync_tags",
                   !.new_item_version = syncer.item_version]
    /\ UNCHANGED <<now, sync_queue, next_id, libraries, items, collections, cloud,
                   worker, role, tags, object_store, quiet, run, call>>

\* download_items: get_items_version_cloud since item_version.
ListItems ==
    /\ syncer.pc = "list_items"
    /\ syncer' = [syncer EXCEPT
                     !.pc = "get_items",
                     !.last_modified_version = Max(@, cloud[syncer.lib].version),
                     !.todo = {k \in VersionsSince(cloud[syncer.lib].items,
                                                   syncer.item_version) :
                                 version_local(items, syncer.lib, k)
                                    < cloud[syncer.lib].items[k]}]
    /\ UNCHANGED <<now, sync_queue, next_id, libraries, items, collections, cloud,
                   worker, role, tags, object_store, quiet, run, call>>

\* The remote answering the two requests of a file download: the status of
\* GET items/{key}/file, then the MD5 of the bytes download_file returns
\* ("none" when the transfer fails, "corrupt" when the body was damaged on
\* the way), and whether the object store then accepts the blob.
FileResponses(c, key) ==
    IF c.files[key] = "none"
    THEN [status : {404, 500}, bytes : {"none"}, put_ok : {TRUE}]
    ELSE [status : {302}, bytes : {c.files[key], "corrupt", "none"}, put_ok : BOOLEAN]
            \cup [status : {500}, bytes : {"none"}, put_ok : {TRUE}]

\* The check read `==` for `!=`.
md5_mismatch_inverted(expected_md5, actual_md5) ==
    expected_md5 # "none" /\ actual_md5 = expected_md5

\* Verify MD5 if provided.
md5_mismatch(expected_md5, actual_md5) ==
    expected_md5 # "none" /\ actual_md5 # expected_md5

\* Item::download_attachment_cloud for an item with this content, when the
\* object store holds `blob` at the item's path and the remote answers r:
\* the call's result, the blob afterwards and the MD5 of the bytes
\* download_file returned ("none" when it was not called or failed).
download_attachment_cloud(content, blob, r) ==
    IF content.link_mode \notin {"linked_file", "imported_file"}
    THEN [error |-> "null", blob |-> blob, file_data |-> "none"]
    ELSE IF content.md5 # "none" /\ blob # "none" /\ blob = content.md5
    THEN [error |-> "null", blob |-> blob, file_data |-> "none"]
    ELSE IF r.status = 404
    THEN [error |-> "null", blob |-> blob, file_data |-> "none"]
    ELSE IF r.status # 302 \/ r.bytes = "none"
    THEN [error |-> ErrorText(r.status), blob |-> blob, file_data |-> "none"]
    ELSE IF md5_mismatch(content.md5, r.bytes)
    THEN [error |-> "validation", blob |-> blob, file_data |-> r.bytes]
    ELSE IF ~r.put_ok
    THEN [error |-> "filesystem", blob |-> blob, file_data |-> r.bytes]
    ELSE [error |-> "null", blob |-> r.bytes, file_data |-> r.bytes]

\* The keys of `keys` the remote library still holds as items.
Found(c, keys) == {k \in keys : c.items[k] # NULL}

\* download_items: get_items_cloud and update_item_local for each item it
\* returns; the attachments among them are downloaded next.
GetItems ==
    /\ syncer.pc = "get_items"
    /\ LET got == Found(cloud[syncer.lib], syncer.todo)
           files == {k \in got : cloud[syncer.lib].content[<<"item", k>>].link_mode # "none"}
       IN  /\ items' = update_local_rows(items, syncer.lib, "item", syncer.todo,
                                         cloud[syncer.lib])
           /\ syncer' = [syncer EXCEPT
                            !.pc = IF files = {} THEN "sync_tags" ELSE "attachment",
                            !.new_item_version = syncer.last_modified_version,
                            !.fetched = @ \cup got,
                            !.replaced = @ \cup (Modified(items, syncer.lib) \cap got),
                            !.todo = files]
    /\ UNCHANGED <<now, sync_queue, next_id, libraries, collections, cloud, worker, role,
                   tags, object_store, quiet, run, call>>

\* download_items: download_attachment_cloud for one fetched attachment item,
\* which is as update_item_local has just stored it; a failure is logged and
\* the loop goes on.
DownloadAttachment ==
    /\ syncer.pc = "attachment"
    /\ \E k \in syncer.todo :
       \E r \in FileResponses(cloud[syncer.lib], k) :
          LET o == download_attachment_cloud(ContentOf(items[<<syncer.lib, k>>]),
                                             object_store[k], r)
          IN  /\ object_store' = [object_store EXCEPT ![k] = o.blob]
              /\ syncer' = [syncer EXCEPT
                               !.todo = @ \ {k},
                               !.logged = IF o.error = "null" THEN @ ELSE @ \cup {o.error},
                               !.file_data = o.file_data,
                               !.pc = IF syncer.todo = {k} THEN "sync_tags" ELSE @]
    /\ UNCHANGED <<now, sync_queue, next_id, libraries, items, collections, cloud,
                   worker, role, tags, quiet, run, call>>

\* GET tags?since=v: the tags changed since v.
TagsSince(stored, v) == {t \in TagNames : stored[t] # NULL /\ stored[t] > v}

\* sync: sync_tags when the library syncs its tags; get_tags_cloud since
\* tag_version, create_tag_local for each tag, and the version is stored in
\* the struct.
SyncTags ==
    /\ syncer.pc = "sync_tags"
    /\ IF syncer.sync_tags /\ can_download(syncer.direction)
       THEN /\ tags' = tags \cup {<<syncer.lib, t>> :
                                     t \in TagsSince(cloud[syncer.lib].tags,
                                                     syncer.tag_version)}
            /\ syncer' = [syncer EXCEPT !.pc = "sync_deleted",
                                        !.tag_version = cloud[syncer.lib].version]
       ELSE /\ tags' = tags
            /\ syncer' = [syncer EXCEPT !.pc = "sync_deleted"]
    /\ UNCHANGED <<now, sync_queue, next_id, libraries, items, collections, cloud,
                   worker, role, object_store, quiet, run, call>>

\* GET deleted?since=v: the keys of one kind in the deletions feed.  The
\* feed is read since the library's `version`, which no step of the sync
\* advances.
Deletions(c, etype) == {x[2] : x \in {y \in c.deleted : y[1] = etype}}

\* sync_deleted: get_deletions_cloud, then try_delete_item_local,
\* try_delete_collection_local and delete_tag_local for what it lists.
SyncDeleted ==
    /\ syncer.pc = "sync_deleted"
    /\ LET c == cloud[syncer.lib]
           gone(etype) == IF can_download(syncer.direction)
                          THEN Deletions(c, etype) ELSE {}
       IN  /\ items' = try_delete_local(items, syncer.lib, gone("item"),
                                        syncer.direction, c.version)
           /\ collections' = try_delete_local(collections, syncer.lib, gone("collection"),
                                              syncer.direction, c.version)
           /\ tags' = tags \ {<<syncer.lib, t>> : t \in gone("tag")}
    /\ syncer' = [syncer EXCEPT !.pc = "commit"]
    /\ UNCHANGED <<now, sync_queue, next_id, libraries, cloud, worker, role,
                   object_store, quiet, run, call>>

\* sync: the versions are stored in the struct and update_local writes them
\* to the libraries row.
Commit ==
    /\ syncer.pc = "commit"
    /\ libraries' = [libraries EXCEPT
                        ![syncer.lib].item_version = syncer.new_item_version,
                        ![syncer.lib].collection_version = syncer.new_collection_version,
                        ![syncer.lib].tag_version = syncer.tag_version]
    /\ syncer' = NoSync
    /\ quiet' = IF quiet = "changed" THEN "changed"
                ELSE IF syncer.logged = {} THEN "synced" ELSE "partial"
    /\ UNCHANGED <<now, sync_queue, next_id, items, collections, cloud, worker, role,
                   tags, object_store, run, call>>

\* The error path had it called update_local with what the struct holds.
SyncFailStoringVersions ==
    /\ syncer.pc \in {"get_items", "sync_tags", "sync_deleted"}
    /\ can_download(syncer.direction)
    /\ libraries' = [libraries EXCEPT
                        ![syncer.lib].item_version = syncer.last_modified_version,
                        ![syncer.lib].collection_version = syncer.new_collection_version,
                        ![syncer.lib].tag_version = syncer.tag_version]
    /\ syncer' = NoSync
    /\ quiet' = "failed"
    /\ UNCHANGED <<now, sync_queue, next_id, items, collections, cloud, worker, role,
                   tags, object_store, run, call>>

\* The error of a phase had it been logged and sync gone on to update_local.
SyncFailGoingOn ==
    /\ syncer.pc \in {"get_collections", "list_items", "get_items"}
    /\ syncer' = [syncer EXCEPT !.pc = "commit"]
    /\ quiet' = "failed"
    /\ UNCHANGED <<now, sync_queue, next_id, libraries, items, collections, cloud,
                   worker, role, tags, object_store, run, call>>

\* A remote read fails and `?` returns the error from sync: nothing is stored
\* in the libraries row.
SyncFail ==
    /\ \/ syncer.pc \in {"get_collections", "list_items", "get_items"}
       \/ syncer.pc = "upload_collection" /\ syncer.todo = {}
             /\ can_download(syncer.direction)
       \/ syncer.pc = "upload_items" /\ can_upload(syncer.direction)
       \/ syncer.pc = "upload_item" /\ syncer.todo = {}
             /\ can_download(syncer.direction)
       \/ syncer.pc = "sync_tags" /\ syncer.sync_tags /\ can_download(syncer.direction)
       \/ syncer.pc = "sync_deleted" /\ can_download(syncer.direction)
    /\ syncer' = NoSync
    /\ quiet' = "failed"
    /\ UNCHANGED <<now, sync_queue, next_id, libraries, items, collections, cloud,
                   worker, role, tags, object_store, run, call>>

-----------------------------------------------------------------------------
(* The environment: local edits (with the database triggers), the          *)
(* administrator and the clock                                             *)

\* A local insert, update or delete of an item or a collection; the trigger
\* queues it when the library's outgoing sync is event-driven.
LocalChange(l, etype, key, op, prio) ==
    /\ LET k == <<l, key>>
           tbl == IF etype = "item" THEN items ELSE collections
           row == CASE op = "insert" -> EntityRow("new", 0, Plain("local"))
                    [] op = "update" ->
                         [tbl[k] EXCEPT !.sync = IF @ = "new" THEN "new" ELSE "modified",
                                        !.data = "local"]
                    [] OTHER -> NoRow
       IN  /\ (op = "insert") = (tbl[k].sync = "absent")
           /\ items' = IF etype = "item" THEN [items EXCEPT ![k] = row] ELSE items
           /\ collections' = IF etype = "item" THEN collections
                             ELSE [collections EXCEPT ![k] = row]
    /\ IF libraries[l].outgoing_sync = "event_driven"
       THEN /\ sync_queue' = [id \in DOMAIN sync_queue \cup {next_id} |->
                                 IF id = next_id
                                 THEN SyncQueueEntry(next_id, l, etype, key, op, prio, now)
                                 ELSE sync_queue[id]]
            /\ next_id' = next_id + 1
       ELSE UNCHANGED <<sync_queue, next_id>>
    /\ quiet' = "changed"
    /\ UNCHANGED <<now, libraries, cloud, worker, role, syncer, tags, object_store, run, call>>

\* The clock advances by a minute.
Tick ==
    /\ now < MaxMinutes
    /\ now' = now + 1
    /\ UNCHANGED <<sync_queue, next_id, libraries, items, collections, cloud,
                   worker, role, syncer, tags, object_store, quiet,
                   run, call>>

\* The times at which a row waiting for its retry becomes due.
DueTimes == {sync_queue[id].next_retry_at : id \in DOMAIN sync_queue}

\* The clock advances to the next time a waiting row becomes due.
WaitForRetry ==
    /\ \E t \in DueTimes : /\ t > now
                           /\ \A u \in DueTimes : u > now => t <= u
                           /\ now' = t
    /\ UNCHANGED <<sync_queue, next_id, libraries, items, collections, cloud,
                   worker, role, syncer, tags, object_store, quiet,
                   run, call>>

\* The clock advances until cleanup finds the oldest processed row expired.
WaitForCleanup ==
    /\ \E id \in DOMAIN sync_queue :
          /\ sync_queue[id].processed_at # NULL
          /\ \A x \in DOMAIN sync_queue :
                sync_queue[x].processed_at # NULL =>
                   sync_queue[id].processed_at <= sync_queue[x].processed_at
          /\ now <= sync_queue[id].processed_at + DayMinutes * CleanupDays
          /\ now' = sync_queue[id].processed_at + DayMinutes * CleanupDays + 1
    /\ UNCHANGED <<sync_queue, next_id, libraries, items, collections, cloud,
                   worker, role, syncer, tags, object_store, quiet,
                   run, call>>

-----------------------------------------------------------------------------
(* The queue and its workers *)

\* The libraries' sync directions, which no step of the worker reads.
WorkerDirection(l) == IF l[2] = "user" THEN "none" ELSE "bothcloud"

\* A row of libraries joined with sync_libraries, before any sync.
LibraryRow(direction, outgoing_sync) ==
    [item_version |-> 0, collection_version |-> 0, tag_version |-> 0,
     direction |-> direction, sync_tags |-> FALSE, outgoing_sync |-> outgoing_sync]

\* Both libraries queue their local changes for the worker.
EventDriven == [l \in Libs |-> LibraryRow(WorkerDirection(l), "event_driven")]

\* The remote library holds, at version 0, the entities the store holds.
InitCloud ==
    [l \in Libs |->
        [NoCloud EXCEPT
            !.items = [k \in Keys |-> IF items[<<l, k>>] = NoRow THEN NULL ELSE 0],
            !.collections = [k \in Keys |->
                                IF collections[<<l, k>>] = NoRow THEN NULL ELSE 0],
            !.content = [x \in EntityTypes \X Keys |->
                            ContentOf(IF x[1] = "item" THEN items[<<l, x[2]>>]
                                      ELSE collections[<<l, x[2]>>])]]]

-----------------------------------------------------------------------------
(* sync_data, one run of the sync binary: src/src/bin/sync.rs *)

\* The id of the key's user library and the ids of the groups.
UserLibraryId == 1
GroupIds == {2, 3}
LibraryIds == {UserLibraryId} \cup GroupIds

\* No run of the sync binary is going on.
\* `local` are the libraries with a local row and `active` the active ones;
\* `remote` are the groups the remote lists for the key; `before` are the
\* libraries that had a local row when the run began, `synced` those whose
\* Library::sync returned Ok, `errors` those with an error of any step;
\* `list_failed` and `delete_failed` tell that the listing of the groups and
\* the final deletion failed.
NoRun ==
    [pc |-> "idle", local |-> {}, active |-> {}, remote |-> {}, synconly |-> {},
     clear_before_sync |-> {}, todo |-> {}, all_library_ids |-> {},
     before |-> {}, synced |-> {}, errors |-> {}, result |-> "none",
     list_failed |-> FALSE, delete_failed |-> FALSE,
     new_group_active |-> FALSE, created |-> {}]

\* The libraries of the current remote set: the key's user library and the
\* groups the remote lists.
RemoteSet(r) == {UserLibraryId} \cup r.remote

\* synconly: an empty allowlist admits every library.
Allowed(r, l) == r.synconly = {} \/ l \in r.synconly

\* What can happen to library l in its turn: all goes well, or the load (or
\* the creation of the missing row), clear_local, Library::sync or the
\* refresh of the group's metadata fails.
Outcomes(r, l) ==
    {"ok", "load_error"}
       \cup (IF l \in r.local \cap r.active THEN {"sync_error"} ELSE {})
       \cup (IF l \in r.local \cap r.active \cap r.clear_before_sync
             THEN {"clear_error"} ELSE {})
       \cup (IF l \in r.local \cap r.active \cap GroupIds
             THEN {"refresh_error"} ELSE {})

\* `return Err(e)` and `?` in sync_data: the run ends with the error.
ReturnErr(r, l) ==
    [r EXCEPT !.pc = "done", !.result = "error", !.errors = @ \cup {l}]

\* create_empty_group_local: the missing row is inserted with version 0 and
\* direction to_local, active as new_group_active says.  (The user library's
\* row is created the same way, its activity not being modelled.)
create_empty_local(r, l) ==
    [r EXCEPT !.local = @ \cup {l},
              !.created = @ \cup {l},
              !.active = IF l \in GroupIds /\ r.new_group_active THEN @ \cup {l} ELSE @]

\* One turn of sync_data for the allow-listed library l with the outcome o,
\* the run going on at `next` afterwards: the id is pushed, the library is
\* loaded or created, cleared if asked, synced, and a synced group's
\* metadata are refreshed.  An error of Library::sync is logged; every other
\* error is returned.
process_library(r, l, o, next) ==
    LET pushed == [r EXCEPT !.all_library_ids = @ \cup {l}, !.pc = next]
    IN  IF o \in {"load_error", "clear_error"}
        THEN ReturnErr(pushed, l)
        ELSE IF o = "refresh_error"
        THEN ReturnErr([pushed EXCEPT !.synced = @ \cup {l}], l)
        ELSE IF l \notin r.local
        THEN create_empty_local(pushed, l)
        ELSE IF l \notin r.active
        THEN pushed
        ELSE IF o = "sync_error"
        THEN [pushed EXCEPT !.errors = @ \cup {l}]
        ELSE [pushed EXCEPT !.synced = @ \cup {l}]

\* delete_unknown_libraries_local: the local libraries that are not in the
\* list are deleted.
delete_unknown_libraries_local(local, known) == local \cap known

\* The variables one run of the sync binary is not modelled to change.
StoreUnchanged ==
    UNCHANGED <<now, sync_queue, next_id, libraries, items, collections, cloud,
                worker, role, syncer, tags, object_store, quiet, call>>

\* 1. Sync user's personal library.
SyncUserLibrary ==
    /\ run.pc = "user"
    /\ IF Allowed(run, UserLibraryId)
       THEN \E o \in Outcomes(run, UserLibraryId) :
               run' = process_library(run, UserLibraryId, o, "groups")
       ELSE run' = [run EXCEPT !.pc = "groups"]
    /\ StoreUnchanged

\* 2. get_user_group_versions lists the groups, or fails.
GetUserGroupVersions ==
    /\ run.pc = "groups"
    /\ \/ run' = [run EXCEPT !.pc = "group", !.todo = run.remote]
       \/ run' = [run EXCEPT !.pc = "done", !.result = "error", !.list_failed = TRUE]
    /\ StoreUnchanged

\* The loop over the groups: one that synconly filters out is skipped before
\* its id is pushed.
SyncGroupLibrary ==
    /\ run.pc = "group"
    /\ \E g \in run.todo :
          LET r == [run EXCEPT !.todo = @ \ {g}]
          IN  IF Allowed(run, g)
              THEN \E o \in Outcomes(run, g) : run' = process_library(r, g, o, "group")
              ELSE run' = r
    /\ StoreUnchanged

\* Delete unknown libraries; a failure of the statement is logged.
DeleteUnknownLibraries ==
    /\ run.pc = "group"
    /\ run.todo = {}
    /\ \E ok \in BOOLEAN :
          run' = [run EXCEPT
                     !.pc = "done",
                     !.result = "ok",
                     !.delete_failed = ~ok,
                     !.local = IF ok
                               THEN delete_unknown_libraries_local(@, run.all_library_ids)
                               ELSE @]
    /\ StoreUnchanged

\* A run of the sync binary begins, for a key whose user library and groups
\* are partly stored and active locally, with some configuration.
InitBatch ==
    /\ now = 0
    /\ sync_queue = << >>
    /\ next_id = 1
    /\ libraries = [l \in Libs |-> LibraryRow("none", "manual")]
    /\ items = [k \in Libs \X Keys |-> NoRow]
    /\ collections = [k \in Libs \X Keys |-> NoRow]
    /\ cloud = [l \in Libs |-> NoCloud]
    /\ syncer = NoSync
    /\ tags = {}
    /\ object_store = [k \in Keys |-> "none"]
    /\ quiet = "synced"
    /\ call = NoCall
    /\ role = [w \in Workers |-> "main"]
    /\ worker = [w \in Workers |->
                    [pc |-> "idle", libs |-> {}, lib |-> <<1, "user">>, batch |-> << >>,
                     library_version |-> 0, error |-> "null", sent |-> FALSE,
                     batch_size |-> DefaultBatchSize]]
    /\ \E local \in SUBSET LibraryIds, remote \in SUBSET GroupIds,
          synconly \in SUBSET LibraryIds, clear \in SUBSET LibraryIds,
          new_active \in BOOLEAN :
       \E active \in SUBSET local :
          run = [NoRun EXCEPT !.pc = "user", !.local = local, !.active = active,
                              !.new_group_active = new_active,
                              !.remote = remote, !.synconly = synconly,
                              !.clear_before_sync = clear, !.before = local,
                              !.result = "running"]

NextBatch ==
    \/ SyncUserLibrary
    \/ GetUserGroupVersions
    \/ SyncGroupLibrary
    \/ DeleteUnknownLibraries

SpecBatch == InitBatch /\ [][NextBatch]_vars

-----------------------------------------------------------------------------
(* One remote write of the client: src/src/zotero/client.rs *)

\* A caller makes one remote write with some tracked library version.
InitWrite ==
    /\ libraries = EventDriven
    /\ now = 0
    /\ sync_queue = << >>
    /\ next_id = 1
    /\ items = [k \in Libs \X Keys |-> NoRow]
    /\ collections = [k \in Libs \X Keys |-> NoRow]
    /\ cloud = [l \in Libs |-> NoCloud]
    /\ syncer = NoSync
    /\ tags = {}
    /\ object_store = [k \in Keys |-> "none"]
    /\ quiet = "changed"
    /\ run = NoRun
    /\ role = [w \in Workers |-> "main"]
    /\ worker = [w \in Workers |->
                    [pc |-> "idle", libs |-> {}, lib |-> <<1, "user">>, batch |-> << >>,
                     library_version |-> 0, error |-> "null", sent |-> FALSE,
                     batch_size |-> DefaultBatchSize]]
    /\ \E op \in WriteOps, v \in 0..MaxCloudVersion :
          call = [NoCall EXCEPT !.pc = "send", !.op = op, !.library_version = v]

NextWrite ==
    \/ SendRequest
    \/ HandleRateLimiting
    \/ MatchStatus

SpecWrite == InitWrite /\ [][NextWrite]_vars

-----------------------------------------------------------------------------
(* Library::clear_local: src/src/zotero/library.rs *)

\* The positions of clear_local: before each of its four statements.
ClearPositions == {"clear_versions", "clear_items", "clear_collections", "clear_tags"}

\* The tags of library l in the table.
TagsOf(tbl, l) == {t \in tbl : t[1] = l}

\* What the store holds of library l: its watermarks, the keys of its items
\* and of its collections, and its tags.
StoredState(l) ==
    <<libraries[l].item_version, libraries[l].collection_version,
      libraries[l].tag_version, Stored(items, l), Stored(collections, l),
      TagsOf(tags, l)>>

\* DELETE FROM <table> WHERE library_id = l: the table without l's rows.
delete_rows(tbl, l) == [k \in DOMAIN tbl |-> IF k[1] = l THEN NoRow ELSE tbl[k]]

\* sync_data calls clear_local on the library it loaded: the object holds the
\* watermarks of the row.
ClearStart(l) ==
    /\ syncer.pc = "idle"
    /\ syncer' = [NoSync EXCEPT
                     !.pc = "clear_versions",
                     !.lib = l,
                     !.direction = libraries[l].direction,
                     !.item_version = libraries[l].item_version,
                     !.collection_version = libraries[l].collection_version,
                     !.tag_version = libraries[l].tag_version,
                     !.entered = StoredState(l)]
    /\ UNCHANGED <<now, sync_queue, next_id, libraries, items, collections, cloud,
                   worker, role, tags, object_store, quiet, run, call>>

\* UPDATE libraries SET version=0, item_version=0, collection_version=0,
\* tag_version=0.
ClearVersions ==
    /\ syncer.pc = "clear_versions"
    /\ libraries' = [libraries EXCEPT ![syncer.lib].item_version = 0,
                                      ![syncer.lib].collection_version = 0,
                                      ![syncer.lib].tag_version = 0]
    /\ syncer' = [syncer EXCEPT !.pc = "clear_items"]
    /\ UNCHANGED <<now, sync_queue, next_id, items, collections, cloud,
                   worker, role, tags, object_store, quiet, run, call>>

\* DELETE FROM items.
ClearItems ==
    /\ syncer.pc = "clear_items"
    /\ items' = delete_rows(items, syncer.lib)
    /\ syncer' = [syncer EXCEPT !.pc = "clear_collections"]
    /\ UNCHANGED <<now, sync_queue, next_id, libraries, collections, cloud,
                   worker, role, tags, object_store, quiet, run, call>>

\* DELETE FROM collections.
ClearCollections ==
    /\ syncer.pc = "clear_collections"
    /\ collections' = delete_rows(collections, syncer.lib)
    /\ syncer' = [syncer EXCEPT !.pc = "clear_tags"]
    /\ UNCHANGED <<now, sync_queue, next_id, libraries, items, cloud,
                   worker, role, tags, object_store, quiet, run, call>>

\* DELETE FROM tags, then the fields of the object are reset and Ok returned.
ClearTags ==
    /\ syncer.pc = "clear_tags"
    /\ tags' = tags \ TagsOf(tags, syncer.lib)
    /\ syncer' = [syncer EXCEPT !.pc = "idle", !.item_version = 0,
                                !.collection_version = 0, !.tag_version = 0]
    /\ UNCHANGED <<now, sync_queue, next_id, libraries, items, collections, cloud,
                   worker, role, object_store, quiet, run, call>>

\* `.execute(db).await?`: the statement at hand fails and clear_local returns
\* the error; the statements before it were each executed on the pool.
ClearFail ==
    /\ syncer.pc \in ClearPositions
    /\ syncer' = [syncer EXCEPT !.pc = "idle"]
    /\ UNCHANGED <<now, sync_queue, next_id, libraries, items, collections, cloud,
                   worker, role, tags, object_store, quiet, run, call>>

\* A library with some rows, some tags and some watermarks is cleared.
InitClear ==
    /\ now = 0
    /\ sync_queue = << >>
    /\ next_id = 1
    /\ items \in [Libs \X Keys -> {NoRow, SyncedRow(0)}]
    /\ collections \in [Libs \X Keys -> {NoRow, SyncedRow(0)}]
    /\ tags \in SUBSET (Libs \X TagNames)
    /\ \E iv \in 0..MaxCloudVersion, cv \in 0..MaxCloudVersion :
          libraries = [l \in Libs |->
                          [LibraryRow("tolocal", "manual") EXCEPT
                              !.item_version = iv, !.collection_version = cv,
                              !.tag_version = IF TagsOf(tags, l) = {} THEN 0 ELSE iv]]
    /\ cloud = InitCloud
    /\ syncer = NoSync
    /\ object_store = [k \in Keys |-> "none"]
    /\ quiet = "synced"
    /\ run = NoRun
    /\ call = NoCall
    /\ role = [w \in Workers |-> "main"]
    /\ worker = [w \in Workers |->
                    [pc |-> "idle", libs |-> {}, lib |-> <<1, "user">>, batch |-> << >>,
                     library_version |-> 0, error |-> "null", sent |-> FALSE,
                     batch_size |-> DefaultBatchSize]]

NextClear ==
    \/ \E l \in Libs : ClearStart(l)
    \/ ClearVersions
    \/ ClearItems
    \/ ClearCollections
    \/ ClearTags
    \/ ClearFail

SpecClear == InitClear /\ [][NextClear]_vars

\* No tag is stored, no blob is stored and no sync has run yet.
NoAttachments ==
    /\ tags = {}
    /\ object_store = [k \in Keys |-> "none"]
    /\ quiet = "changed"

\* The store holds some entities already synced, in the tables `types` of the
\* libraries `libs`.
InitWorker(batch_sizes, libs, types) ==
    /\ now = 0
    /\ sync_queue = << >>
    /\ next_id = 1
    /\ items \in [Libs \X Keys -> {NoRow, SyncedRow(0)}]
    /\ collections \in [Libs \X Keys -> {NoRow, SyncedRow(0)}]
    /\ \A k \in Libs \X Keys :
          /\ (k[1] \notin libs \/ "item" \notin types) => items[k] = NoRow
          /\ (k[1] \notin libs \/ "collection" \notin types) => collections[k] = NoRow
    /\ cloud = InitCloud
    /\ syncer = NoSync
    /\ NoAttachments
    /\ run = NoRun
    /\ call = NoCall
    /\ worker \in [Workers -> [pc : {"idle"}, libs : {{}}, lib : {<<1, "user">>},
                               batch : {<< >>}, library_version : {0},
                               error : {"null"}, sent : {FALSE},
                               batch_size : batch_sizes]]

WorkerStep(w) ==
    \/ Poll(w)
    \/ FetchSelect(w)
    \/ FetchReturn(w)
    \/ GetLibraryVersion(w)
    \/ SyncEntity(w)
    \/ MarkEntry(w)
    \/ UpdateLibraryVersion(w)

\* Two workers started without --batch-size on the same queue.
Init ==
    /\ libraries = EventDriven
    /\ InitWorker({main_batch_size(<< >>)}, Libs, EntityTypes)
    /\ role = [w \in Workers |-> "main"]

Next ==
    \/ \E w \in Workers : WorkerStep(w)
    \/ \E w \in Workers : Cleanup(w)
    \/ WaitForCleanup
    \/ /\ next_id <= MaxEntries
       /\ \E l \in Libs, etype \in EntityTypes, key \in Keys, op \in Operations :
             LocalChange(l, etype, key, op, DefaultPriority)
    \/ Tick
    \/ WaitForRetry

Spec == Init /\ [][Next]_vars

\* One worker on the queue of the group library, whose collections and
\* items are stored.
InitOrdered ==
    /\ libraries = EventDriven
    /\ InitWorker({main_batch_size(<< >>)}, {<<1, "group">>}, EntityTypes)
    /\ role = [w \in Workers |-> "main"]

\* One worker on the queue.
InitOne ==
    /\ libraries = EventDriven
    /\ InitWorker({main_batch_size(<< >>)}, {<<1, "group">>}, {"item"})
    /\ role = [w \in Workers |-> "main"]

NextOne ==
    \/ WorkerStep("w1")
    \/ /\ next_id <= MaxBatchEntries
       /\ \E key \in Keys, op \in Operations :
             LocalChange(<<1, "group">>, "item", key, op, DefaultPriority)
    \/ Tick
    \/ WaitForRetry

SpecOne == InitOne /\ [][NextOne]_vars

\* process_library: get_library_version or update_library_version fails and
\* `?` returns the error to process_pending, which logs it.
LibraryFail(w) ==
    /\ worker[w].pc \in {"version", "update"}
    /\ worker' = [worker EXCEPT ![w] = Returned(@, worker[w].libs)]
    /\ UNCHANGED <<now, sync_queue, next_id, libraries, items, collections, cloud,
                   role, syncer, tags, object_store, quiet, run, call>>

\* One worker; entities of both libraries and both types are edited, so a
\* tick meets several libraries and a batch several entries.
NextTick ==
    \/ WorkerStep("w1")
    \/ LibraryFail("w1")
    \/ /\ next_id <= MaxPending
       /\ \E l \in Libs, etype \in EntityTypes, key \in Keys, op \in Operations :
             LocalChange(l, etype, key, op, DefaultPriority)

SpecTick == Init /\ [][NextTick]_vars

\* One worker started with any --batch-size, on event-driven libraries.
InitProgress ==
    /\ libraries = EventDriven
    /\ InitWorker({main_batch_size(a) : a \in CliBatchSizes}, {<<1, "group">>}, {"item"})
    /\ worker["w2"].batch_size = DefaultBatchSize
    /\ role = [w \in Workers |-> "main"]

\* The ticker of run fires for ever and each iteration runs to its end, so
\* a step of the worker that stays possible is taken; time goes on to the
\* next moment at which a retry is due.
Fairness ==
    /\ WF_vars(WorkerStep("w1"))
    /\ WF_vars(WaitForRetry)

\* The worker, local changes queued between its iterations, and the clock
\* going on to the next retry.
NextProgress ==
    \/ WorkerStep("w1")
    \/ /\ next_id <= MaxBatchEntries
       /\ worker["w1"].pc = "idle"
       /\ \E key \in Keys, op \in {"insert", "update"} :
             LocalChange(<<1, "group">>, "item", key, op, DefaultPriority)
    \/ WaitForRetry

SpecProgress == InitProgress /\ [][NextProgress]_vars /\ Fairness

\* The worker binary installs no signal handler and run has no exit from its
\* loop ("runs forever"): the signal that stops the worker ends the process
\* by the default disposition, wherever the iteration is.
Shutdown(w) ==
    /\ worker[w].pc # "stopped"
    /\ worker' = [worker EXCEPT ![w].pc = "stopped"]
    /\ UNCHANGED <<now, sync_queue, next_id, libraries, items, collections, cloud,
                   role, syncer, tags, object_store, quiet, run, call>>

\* One worker in continuous mode, local changes queued while it runs, and
\* the signal that stops it.
NextShutdown ==
    \/ WorkerStep("w1")
    \/ /\ next_id <= MaxPending
       /\ \E key \in Keys, op \in Operations :
             LocalChange(<<1, "group">>, "item", key, op, DefaultPriority)
    \/ Shutdown("w1")

SpecShutdown == InitOne /\ [][NextShutdown]_vars

\* One worker that runs its cleanup between iterations, on a queue whose
\* rows, queued between its iterations, are completed or fail and grow old.
NextCleanup ==
    \/ WorkerStep("w1")
    \/ Cleanup("w1")
    \/ /\ next_id <= MaxPending
       /\ worker["w1"].pc = "idle"
       /\ \E key \in Keys, op \in {"insert", "update"} :
             LocalChange(<<1, "group">>, "item", key, op, DefaultPriority)
    \/ WaitForCleanup

SpecCleanup == InitOne /\ [][NextCleanup]_vars

\* One worker; the collections and items of one library are edited with
\* either priority, so fetch_pending returns batches in which item entries
\* come before collection entries.
NextPartition ==
    \/ WorkerStep("w1")
    \/ /\ next_id <= MaxPending
       /\ \E etype \in EntityTypes, key \in Keys, op \in Operations, prio \in Priorities :
             LocalChange(<<1, "group">>, etype, key, op, prio)

SpecPartition == InitOrdered /\ [][NextPartition]_vars

-----------------------------------------------------------------------------
(* The full sync of a library, with other clients of the remote library *)

\* The MD5s of the files other clients attach.
Md5s == {"m1", "m2"}

\* What another client may store in an entity: a collection or an item that
\* is no attachment, a linked file (the remote never holds its file), or an
\* imported file whose file it has uploaded (the item then carries the
\* file's MD5) or not yet.
RemoteContents(etype) ==
    IF etype = "collection"
    THEN {Plain("remote")}
    ELSE {Plain("remote")}
            \cup [data : {"remote"}, link_mode : {"linked_file"}, md5 : {"none"}]
            \cup [data : {"remote"}, link_mode : {"imported_file"},
                  md5 : Md5s \cup {"none"}]

\* Another client writes an entity of the remote library.
RemoteChange(l, etype, key, max_version) ==
    /\ cloud[l].version < max_version
    /\ \E content \in RemoteContents(etype) :
          cloud' = [cloud EXCEPT
                       ![l] = [CloudPut(@, etype, key, cloud[l].version + 1, content)
                                  EXCEPT !.files[key] =
                                            IF etype = "item" THEN content.md5 ELSE @]]
    /\ quiet' = "changed"
    /\ UNCHANGED <<now, sync_queue, next_id, libraries, items, collections, worker,
                   role, syncer, tags, object_store, run, call>>

\* Another client deletes an entity of the remote library.
RemoteDelete(l, etype, key, max_version) ==
    /\ cloud[l].version < max_version
    /\ (IF etype = "item" THEN cloud[l].items[key] ELSE cloud[l].collections[key]) # NULL
    /\ cloud' = [cloud EXCEPT ![l] = CloudDelete(@, etype, key, cloud[l].version + 1)]
    /\ quiet' = "changed"
    /\ UNCHANGED <<now, sync_queue, next_id, libraries, items, collections, worker,
                   role, syncer, tags, object_store, run, call>>

\* Another client adds a tag to the remote library, or removes it.
RemoteTag(l, t) ==
    /\ cloud[l].version < MaxCloudVersion
    /\ LET v == cloud[l].version + 1
       IN  cloud' = [cloud EXCEPT
                        ![l] = IF cloud[l].tags[t] = NULL
                               THEN [@ EXCEPT !.version = v, !.tags[t] = v,
                                              !.deleted = @ \ {<<"tag", t>>}]
                               ELSE [@ EXCEPT !.version = v, !.tags[t] = NULL,
                                              !.deleted = @ \cup {<<"tag", t>>}]]
    /\ quiet' = "changed"
    /\ UNCHANGED <<now, sync_queue, next_id, libraries, items, collections, worker,
                   role, syncer, tags, object_store, run, call>>

\* The group library syncs in some direction, by runs of the sync binary
\* only; the user library has the default direction, none.
InitSync ==
    /\ InitWorker({DefaultBatchSize}, {<<1, "group">>}, EntityTypes)
    /\ role = [w \in Workers |-> "main"]
    /\ \E d \in Directions, t \in BOOLEAN :
          libraries = [l \in Libs |->
                          IF l = <<1, "group">>
                          THEN [LibraryRow(d, "manual") EXCEPT !.sync_tags = t]
                          ELSE LibraryRow("none", "manual")]

NextSync ==
    \/ \E l \in Libs : SyncStart(l)
    \/ SelectModifiedCollections
    \/ UploadCollection
    \/ ListCollections
    \/ GetCollections
    \/ SelectModifiedItems
    \/ UploadItem
    \/ ListTrashedItems
    \/ ListItems
    \/ GetItems
    \/ DownloadAttachment
    \/ SyncTags
    \/ SyncDeleted
    \/ Commit
    \/ SyncFail
    \/ \E etype \in EntityTypes, key \in Keys, op \in {"insert", "update"} :
          LocalChange(<<1, "group">>, etype, key, op, DefaultPriority)
    \/ \E etype \in EntityTypes, key \in Keys :
          RemoteChange(<<1, "group">>, etype, key, MaxCloudVersion)
    \/ \E etype \in EntityTypes, key \in Keys :
          RemoteDelete(<<1, "group">>, etype, key, MaxCloudVersion)
    \/ \E t \in TagNames : RemoteTag(<<1, "group">>, t)

SpecSync == InitSync /\ [][NextSync]_vars

\* The same, when nobody edits the library while a sync of it runs.
NextQuiet ==
    \/ \E l \in Libs : SyncStart(l)
    \/ SelectModifiedCollections
    \/ UploadCollection
    \/ ListCollections
    \/ GetCollections
    \/ SelectModifiedItems
    \/ UploadItem
    \/ ListTrashedItems
    \/ ListItems
    \/ GetItems
    \/ DownloadAttachment
    \/ SyncTags
    \/ SyncDeleted
    \/ Commit
    \/ SyncFail
    \/ /\ syncer.pc = "idle"
       /\ \E etype \in EntityTypes, key \in Keys, op \in {"insert", "update"} :
             LocalChange(<<1, "group">>, etype, key, op, DefaultPriority)
    \/ /\ syncer.pc = "idle"
       /\ \E etype \in EntityTypes, key \in Keys :
             RemoteChange(<<1, "group">>, etype, key, MaxCloudVersion)
    \/ /\ syncer.pc = "idle"
       /\ \E etype \in EntityTypes, key \in Keys :
             RemoteDelete(<<1, "group">>, etype, key, MaxCloudVersion)
    \/ /\ syncer.pc = "idle"
       /\ \E t \in TagNames : RemoteTag(<<1, "group">>, t)

SpecQuiet == InitSync /\ [][NextQuiet]_vars

\* A row whose sync column reads 'incomplete': stored at version v with
\* local content.
IncompleteRow(v) ==
    [SyncedRow(v) EXCEPT !.sync = "incomplete", !.data = "local"]

\* The store of the group library holds rows marked incomplete; the library
\* syncs in a direction that uploads.
InitRetry ==
    /\ now = 0
    /\ sync_queue = << >>
    /\ next_id = 1
    /\ items \in [Libs \X Keys -> {NoRow, IncompleteRow(0)}]
    /\ collections \in [Libs \X Keys -> {NoRow, IncompleteRow(0)}]
    /\ \A k \in Libs \X Keys :
          k[1] # <<1, "group">> => items[k] = NoRow /\ collections[k] = NoRow
    /\ cloud = InitCloud
    /\ syncer = NoSync
    /\ NoAttachments
    /\ run = NoRun
    /\ call = NoCall
    /\ role = [w \in Workers |-> "main"]
    /\ worker = [w \in Workers |->
                    [pc |-> "idle", libs |-> {}, lib |-> <<1, "user">>, batch |-> << >>,
                     library_version |-> 0, error |-> "null", sent |-> FALSE,
                     batch_size |-> DefaultBatchSize]]
    /\ \E d \in {x \in Directions : can_upload(x)} :
          libraries = [l \in Libs |->
                          IF l = <<1, "group">> THEN LibraryRow(d, "manual")
                          ELSE LibraryRow("none", "manual")]

SpecRetry == InitRetry /\ [][NextQuiet]_vars

\* The local store is empty, every watermark is 0 and the group library can
\* download: the first pull of a library other clients write to.
InitPull ==
    /\ InitWorker({DefaultBatchSize}, {}, {})
    /\ role = [w \in Workers |-> "main"]
    /\ \E d \in {x \in Directions : can_download(x)} :
          libraries = [l \in Libs |->
                          IF l = <<1, "group">> THEN LibraryRow(d, "manual")
                          ELSE LibraryRow("none", "manual")]

\* Nothing is edited locally, so the upload phases find nothing to send.
NextPull ==
    \/ \E l \in Libs : SyncStart(l)
    \/ SelectModifiedCollections
    \/ ListCollections
    \/ GetCollections
    \/ SelectModifiedItems
    \/ ListTrashedItems
    \/ ListItems
    \/ GetItems
    \/ DownloadAttachment
    \/ SyncTags
    \/ SyncDeleted
    \/ Commit
    \/ SyncFail
    \/ \E etype \in EntityTypes, key \in Keys :
          RemoteChange(<<1, "group">>, etype, key, MaxRemoteVersion)
    \/ \E etype \in EntityTypes, key \in Keys :
          RemoteDelete(<<1, "group">>, etype, key, MaxRemoteVersion)

SpecPull == InitPull /\ [][NextPull]_vars

-----------------------------------------------------------------------------
(* The queue under direct calls of its API, two callers *)

ApiBatchSizes == {0, 1, 60}

\* A caller other than the worker calls fetch_pending.
ApiFetch(w, l, batch_size) ==
    /\ role[w] = "api"
    /\ worker[w].pc = "idle"
    /\ Fetch(w, l, batch_size, {})
    /\ UNCHANGED <<now, sync_queue, next_id, libraries, items, collections, cloud,
                   role, syncer, tags, object_store, quiet, run, call>>

\* fetch_pending returns to that caller, which lets go of its rows.
ApiReturn(w) ==
    /\ role[w] = "api"
    /\ worker[w].pc = "fetch_tx"
    /\ worker' = [worker EXCEPT
                     ![w] = [Returned(@, {}) EXCEPT !.batch_size = DefaultBatchSize]]
    /\ UNCHANGED <<now, sync_queue, next_id, libraries, items, collections, cloud,
                   role, syncer, tags, object_store, quiet, run, call>>

\* mark_completed called on a row; the UPDATE waits for the row's lock.
MarkCompleted(id) ==
    /\ id \notin Locked
    /\ sync_queue[id].processed_at = NULL
    /\ sync_queue' = mark_completed(sync_queue, now, id)
    /\ UNCHANGED <<now, next_id, libraries, items, collections, cloud, worker, role, syncer,
                   tags, object_store, quiet, run, call>>

\* mark_failed called on a row that was due.
MarkFailed(id, error) ==
    /\ id \notin Locked
    /\ Ready(sync_queue, now, id)
    /\ sync_queue' = mark_failed(sync_queue, now, id, error)
    /\ UNCHANGED <<now, next_id, libraries, items, collections, cloud, worker, role, syncer,
                   tags, object_store, quiet, run, call>>

InitApi ==
    /\ libraries = EventDriven
    /\ InitWorker({DefaultBatchSize}, {}, {})
    /\ role = [w \in Workers |-> "api"]

\* One caller; the rows fail, wait for their retries and complete.
NextFetch ==
    \/ \E l \in Libs, n \in {0, 1} : ApiFetch("w1", l, n)
    \/ ApiReturn("w1")
    \/ \E id \in DOMAIN sync_queue : MarkCompleted(id)
    \/ \E id \in DOMAIN sync_queue : MarkFailed(id, "api_500")
    \/ /\ next_id <= MaxBatchEntries
       /\ \E key \in Keys, op \in {"insert", "update"} :
             LocalChange(<<1, "group">>, "item", key, op, DefaultPriority)
    \/ WaitForRetry

SpecFetch == InitApi /\ [][NextFetch]_vars

\* Two callers; rows of two priorities, created at different times.
NextOrder ==
    \/ \E w \in Workers :
          \/ \E l \in Libs, n \in ApiBatchSizes : ApiFetch(w, l, n)
          \/ ApiReturn(w)
    \/ \E id \in DOMAIN sync_queue : MarkCompleted(id)
    \/ /\ next_id <= MaxQueueRows
       /\ \E key \in Keys, op \in {"insert", "update"}, prio \in Priorities :
             LocalChange(<<1, "group">>, "item", key, op, prio)
    \/ Tick

SpecOrder == InitApi /\ [][NextOrder]_vars

\* A backlog of n rows of one library, queued a minute apart by updates of
\* one item.
Backlog(n) ==
    [id \in 1..n |->
        SyncQueueEntry(id, <<1, "group">>, "item", "K1", "update", DefaultPriority, id - 1)]

InitLimit ==
    /\ \E n \in 0..MaxBacklog :
          /\ now = n
          /\ sync_queue = Backlog(n)
          /\ next_id = n + 1
          /\ items = [k \in Libs \X Keys |->
                        IF k[1] = <<1, "group">> /\ n > 0
                        THEN [SyncedRow(0) EXCEPT !.sync = "modified", !.data = "local"]
                        ELSE NoRow]
    /\ libraries = EventDriven
    /\ collections = [k \in Libs \X Keys |-> NoRow]
    /\ cloud = InitCloud
    /\ syncer = NoSync
    /\ NoAttachments
    /\ run = NoRun
    /\ call = NoCall
    /\ role \in [Workers -> {"main", "api"}]
    /\ worker \in [Workers -> [pc : {"idle"}, libs : {{}}, lib : {<<1, "user">>},
                               batch : {<< >>}, library_version : {0},
                               error : {"null"}, sent : {FALSE},
                               batch_size : {main_batch_size(a) : a \in CliBatchSizes}]]
    /\ \A w \in Workers : role[w] = "api" => worker[w].batch_size = DefaultBatchSize
    /\ role["w2"] = "api"

\* The backlog meets one fetch_pending, of a worker started with any
\* --batch-size or of another caller.
NextLimit ==
    \/ /\ role["w1"] = "main"
       /\ \/ Poll("w1")
          \/ FetchSelect("w1")
    \/ FetchReturn("w1")
    \/ \E n \in ApiBatchSizes : ApiFetch("w1", <<1, "group">>, n)

SpecLimit == InitLimit /\ [][NextLimit]_vars


-----------------------------------------------------------------------------
(* Properties of the queue under two workers (Spec) *)

\* The entries a worker has been handed by fetch_pending and has not yet
\* marked completed or failed.
Held(w) ==
    IF worker[w].pc \in {"version", "entry", "mark"}
    THEN {e.id : e \in Range(worker[w].batch)}
    ELSE {}

HasUnprocessed(l) ==
    \E id \in DOMAIN sync_queue : /\ LibOf(sync_queue[id]) = l
                                  /\ sync_queue[id].processed_at = NULL

\* C1: no queue entry is leased by two workers: an entry that fetch_pending
\* returned to one worker is not returned to another worker before the first
\* has marked it completed or failed.
C1_NoDoubleLease ==
    \A w1, w2 \in Workers : w1 # w2 => Held(w1) \cap Held(w2) = {}

\* C2: every entry has retry_count <= max_retries, and once an entry's
\* processed_at is set its retry_count never changes again.
C2_RetryCountBounded ==
    [][\A id \in DOMAIN sync_queue :
          /\ sync_queue[id].retry_count <= sync_queue[id].max_retries
          /\ (sync_queue[id].processed_at # NULL /\ id \in DOMAIN sync_queue') =>
                sync_queue'[id].retry_count = sync_queue[id].retry_count]_vars

\* C3: a processed entry is terminal: once processed_at is set, no
\* fetch_pending returns the entry, it does not make its library appear in
\* get_libraries_with_pending, and no worker sends it to the remote API.
C3_ProcessedTerminal ==
    [][\A w \in Workers :
          /\ (worker[w].pc = "library" /\ worker'[w].pc = "fetch_tx") =>
                \A e \in Range(worker'[w].batch) :
                    sync_queue[e.id].processed_at = NULL
          /\ (worker[w].pc = "idle" /\ worker'[w].pc = "library") =>
                \A l \in worker'[w].libs : HasUnprocessed(l)
          /\ (worker[w].pc = "entry" /\ worker'[w].pc = "mark" /\ worker'[w].sent) =>
                sync_queue[Head(worker[w].batch).id].processed_at = NULL]_vars

\* C9: for a library whose direction is none the worker issues no remote
\* call and changes no local row, even when the library has pending entries.
C9_DirectionNoneNoIO ==
    [][\A w \in Workers :
          (worker[w].pc = "entry" /\ worker'[w].pc = "mark"
             /\ libraries[worker[w].lib].direction = "none") =>
                /\ ~worker'[w].sent
                /\ items' = items
                /\ collections' = collections]_vars

-----------------------------------------------------------------------------
(* Properties of fetch_pending (SpecFetch, SpecOrder, SpecLimit) *)

\* The step in which w's fetch_pending statement selects its rows.
Fetched(w) == worker[w].pc # "fetch_tx" /\ worker'[w].pc = "fetch_tx"

\* C4: every entry fetch_pending returns is a row of the queue, of exactly the
\* library asked for, with processed_at null, retry_count < max_retries and
\* next_retry_at <= now at the time of the fetch, and at most batch_size
\* entries are returned.
C4_FetchFilter ==
    [][\A w \in Workers :
          Fetched(w) =>
             LET rows == worker'[w].batch
                 l == worker'[w].lib
             IN  /\ Len(rows) <= worker'[w].batch_size
                 /\ \A i \in DOMAIN rows :
                       /\ rows[i].id \in DOMAIN sync_queue
                       /\ rows[i] = sync_queue[rows[i].id]
                       /\ rows[i].library_id = l[1]
                       /\ rows[i].library_type = l[2]
                       /\ rows[i].processed_at = NULL
                       /\ rows[i].retry_count < rows[i].max_retries
                       /\ rows[i].next_retry_at <= now]_vars

\* C4, witness: a fetch returned a row that had failed before and was due
\* again.
C4_Witness ==
    \E w \in Workers : /\ worker[w].pc = "fetch_tx"
                       /\ worker[w].batch # << >>
                       /\ Head(worker[w].batch).retry_count > 0

\* The rows of library l that satisfy the WHERE clause and that the fetch
\* step of w left out.
LeftOut(w) ==
    Eligible(sync_queue, now, worker'[w].lib[1], worker'[w].lib[2])
        \ {e.id : e \in Range(worker'[w].batch)}

\* Entry a has higher priority than entry b, or the same priority and an
\* earlier created_at.
Outranks(a, b) ==
    \/ a.priority > b.priority
    \/ a.priority = b.priority /\ a.created_at < b.created_at

Sorted(rows) ==
    \A i, j \in DOMAIN rows : i < j => ~Outranks(rows[j], rows[i])

\* C5, as stated: fetch_pending returns the entries by priority descending,
\* then created_at ascending: no returned entry has lower priority (or equal
\* priority and later created_at) than an eligible entry that was left out.
C5_OrderAmongEligible ==
    [][\A w \in Workers :
          Fetched(w) =>
             /\ Sorted(worker'[w].batch)
             /\ \A e \in Range(worker'[w].batch) :
                \A y \in LeftOut(w) : ~Outranks(sync_queue[y], e)]_vars

\* C5, amended: the same, among the eligible entries that no fetch_pending
\* statement of another caller holds locked at the time.
C5_OrderAmongUnlocked ==
    [][\A w \in Workers :
          Fetched(w) =>
             /\ Sorted(worker'[w].batch)
             /\ \A e \in Range(worker'[w].batch) :
                \A y \in LeftOut(w) \ Locked : ~Outranks(sync_queue[y], e)]_vars

\* C5, witness: a fetch limited to one row returned the row that sorts before
\* another eligible, unlocked row of the library.
C5_Witness ==
    \E w \in Workers :
       /\ worker[w].pc = "fetch_tx"
       /\ Len(worker[w].batch) = 1
       /\ \E y \in Eligible(sync_queue, now, worker[w].lib[1], worker[w].lib[2]) \ Locked :
             Outranks(worker[w].batch[1], sync_queue[y])

\* C8, as stated: fetch_pending with batch_size = 0 returns no entries, and
\* with any batch_size greater than 50 returns at most 50 entries.
C8_LimitInFetch ==
    [][\A w \in Workers :
          Fetched(w) =>
             /\ worker'[w].batch_size = 0 => worker'[w].batch = << >>
             /\ worker'[w].batch_size > ApiBatchLimit =>
                   Len(worker'[w].batch) <= ApiBatchLimit]_vars

\* C8, amended: fetch_pending with batch_size = 0 returns no entries and
\* never returns more than batch_size entries; a fetch of the sync-worker
\* binary, which clamps --batch-size to 50, returns at most 50 entries.
C8_LimitInWorker ==
    [][\A w \in Workers :
          Fetched(w) =>
             /\ worker'[w].batch_size = 0 => worker'[w].batch = << >>
             /\ Len(worker'[w].batch) <= worker'[w].batch_size
             /\ role[w] = "main" => Len(worker'[w].batch) <= ApiBatchLimit]_vars

\* C8, witness: a worker's fetch returned 50 entries of a longer backlog.
C8_Witness ==
    /\ role["w1"] = "main"
    /\ worker["w1"].pc = "fetch_tx"
    /\ Len(worker["w1"].batch) = ApiBatchLimit
    /\ Cardinality(DOMAIN sync_queue) > ApiBatchLimit

-----------------------------------------------------------------------------
(* Properties of the retries (SpecOne) *)

\* C6: mark_failed on an entry whose retry_count is k sets retry_count to
\* k + 1, last_error to the error given and next_retry_at to now + 2^k
\* minutes.
C6_MarkFailedBackoff ==
    [][\A w \in Workers :
          (worker[w].pc = "mark" /\ worker'[w].pc # "mark" /\ worker[w].error # "null") =>
             LET id == Head(worker[w].batch).id
                 k == sync_queue[id].retry_count
             IN  /\ sync_queue'[id].retry_count = k + 1
                 /\ sync_queue'[id].last_error = worker[w].error
                 /\ sync_queue'[id].next_retry_at = now + Pow(2, k)
                 /\ k \in 0..4 => sync_queue'[id].next_retry_at - now = <<1, 2, 4, 8, 16>>[k + 1]]_vars

\* C6, witness: an entry failed for the fifth time and waits 16 minutes.
C6_Witness ==
    \E id \in DOMAIN sync_queue :
       /\ sync_queue[id].retry_count = 5
       /\ sync_queue[id].last_error # "null"
       /\ sync_queue[id].next_retry_at = now + 16

Exhausted(q, id) == q[id].retry_count >= q[id].max_retries

\* C7: once an entry has failed max_retries times it stays exhausted and no
\* fetch_pending returns it, and get_libraries_with_pending returns no library
\* whose unprocessed entries are all exhausted.
C7_RetryExhaustion ==
    [][/\ \A id \in DOMAIN sync_queue :
             Exhausted(sync_queue, id) =>
                (id \in DOMAIN sync_queue' => Exhausted(sync_queue', id))
       /\ \A w \in Workers :
             /\ Fetched(w) =>
                   \A e \in Range(worker'[w].batch) : ~Exhausted(sync_queue, e.id)
             /\ (worker[w].pc = "idle" /\ worker'[w].pc = "library") =>
                   \A l \in worker'[w].libs :
                      \E id \in DOMAIN sync_queue :
                         /\ LibOf(sync_queue[id]) = l
                         /\ sync_queue[id].processed_at = NULL
                         /\ ~Exhausted(sync_queue, id)]_vars

\* C7, witness: an exhausted, unprocessed entry whose last retry time has
\* come, with the worker polling.
C7_Witness ==
    /\ worker["w1"].pc = "idle"
    /\ \E id \in DOMAIN sync_queue :
          /\ sync_queue[id].retry_count = sync_queue[id].max_retries
          /\ sync_queue[id].processed_at = NULL
          /\ sync_queue[id].next_retry_at <= now

-----------------------------------------------------------------------------
(* Properties of the full sync (SpecSync) *)

\* C10: after every committed full sync of a library, every local item has
\* version <= the library's item_version and every local collection has
\* version <= the library's collection_version, the entities uploaded in
\* that sync included.
C10_VersionsWithinWatermark ==
    [][(syncer.pc = "commit" /\ syncer'.pc = "idle") =>
          \A k \in Keys :
             LET x == <<syncer.lib, k>>
             IN  /\ items'[x].sync # "absent" =>
                       items'[x].version <= libraries'[syncer.lib].item_version
                 /\ collections'[x].sync # "absent" =>
                       collections'[x].version
                          <= libraries'[syncer.lib].collection_version]_vars

-----------------------------------------------------------------------------
(* Properties of the full sync when nobody edits the library meanwhile:    *)
(* SpecQuiet                                                               *)

\* The watermarks stored in a row of libraries.
Watermarks(row) == <<row.item_version, row.collection_version, row.tag_version>>

\* C11: the stored item_version, collection_version and tag_version of a
\* library change only in the last step of a sync that has gone through all
\* its phases; a sync that returns an error leaves them as they were when it
\* started.
C11_VersionsCommittedOnSuccess ==
    [][\A l \in Libs :
          Watermarks(libraries'[l]) # Watermarks(libraries[l]) =>
             /\ syncer.pc = "commit"
             /\ syncer.lib = l
             /\ quiet' # "failed"]_vars

\* C11: a sync has failed after it had downloaded an item of a newer remote
\* version, and the library's watermarks are those of before.
C11_Witness ==
    /\ quiet = "failed"
    /\ syncer.pc = "idle"
    /\ libraries[<<1, "group">>].direction = "tolocal"
    /\ \E k \in Keys :
          /\ items[<<<<1, "group">>, k>>].sync = "synced"
          /\ items[<<<<1, "group">>, k>>].version > libraries[<<1, "group">>].item_version
          /\ cloud[<<1, "group">>].version > libraries[<<1, "group">>].item_version

\* The positions at which the sync sends a remote write or fetches entities
\* for each key left in `todo`.
RequestsLeft ==
    IF syncer.pc \in {"upload_collection", "upload_item", "get_collections",
                      "get_items", "attachment"}
    THEN syncer.todo ELSE {}

\* C12: a sync that runs after a sync that completed without logging an
\* error, with no local and no remote edit since, advances no watermark,
\* changes no entity row, tag or blob and nothing in the remote library, sends
\* no write and fetches no entity.
C12_SecondSyncChangesNothing ==
    [][(quiet = "synced" /\ quiet' \in {"synced", "partial"})
          => (quiet' = "synced" /\ RequestsLeft' = {}
                 /\ UNCHANGED <<items, collections, tags, object_store,
                                libraries, cloud>>)]_vars

\* The item rows the step of the upload phase has just written remotely.
Written ==
    IF syncer.pc = "upload_item" /\ cloud'[syncer.lib] # cloud[syncer.lib]
    THEN syncer.todo \ syncer'.todo ELSE {}

\* An item row that is synced at the version the remote lists for its key.
RoundTripped(row, c, k) ==
    /\ row.sync = "synced"
    /\ c.items[k] # NULL
    /\ row.version = c.items[k]
    /\ k \in VersionsSince(c.items, 0)

BlobMatches(row, blob) == blob # "none" /\ blob = row.md5

\* C14: once a sync has completed, every attachment item row (imported_file
\* or linked_file) that is synced has a blob in the object store whose MD5
\* is the row's md5.
C14_SyncedAttachmentHasBlob ==
    (syncer.pc = "idle" /\ quiet \in {"synced", "partial"}) =>
       \A k \in Keys :
          LET row == items[<<<<1, "group">>, k>>]
          IN  (row.sync = "synced" /\ row.link_mode \in {"imported_file", "linked_file"})
                 => BlobMatches(row, object_store[k])

\* The attachment items whose download the step has just made.
Downloaded ==
    IF syncer.pc = "attachment" THEN syncer.todo \ syncer'.todo ELSE {}

\* C15: a download whose bytes have another MD5 than the md5 in the item data
\* fails with a Validation error and leaves the object store unchanged; the
\* blob of an item whose data carry an md5 is written only with bytes of
\* that MD5.
C15_DownloadVerifiesMd5 ==
    [][\A k \in Downloaded :
          LET expected_md5 == items[<<syncer.lib, k>>].md5
              actual_md5 == syncer'.file_data
          IN  expected_md5 # "none" =>
                 (/\ (actual_md5 # "none" /\ actual_md5 # expected_md5)
                        => (/\ "validation" \in syncer'.logged
                            /\ object_store' = object_store)
                  /\ object_store'[k] # object_store[k]
                        => (actual_md5 = expected_md5 /\ object_store'[k] = expected_md5))]_vars

\* C15: a download received damaged bytes, the Validation error is logged
\* and no blob was stored.
C15_Witness ==
    /\ syncer.file_data = "corrupt"
    /\ "validation" \in syncer.logged
    /\ \E k \in syncer.fetched :
          /\ items[<<syncer.lib, k>>].md5 \in Md5s
          /\ object_store[k] = "none"

\* The keys of one kind the step of the deletions phase applies tombstones to.
Tombstoned(etype) ==
    IF syncer.pc = "sync_deleted" /\ syncer'.pc = "commit" /\ can_download(syncer.direction)
    THEN Deletions(cloud[syncer.lib], etype) ELSE {}

\* The stated policy for a tombstoned row that exists and is not deleted.
PolicyRow(row, direction, last_modified_version) ==
    IF row.sync = "synced" \/ (can_download(direction) /\ ~can_upload(direction))
    THEN [row EXCEPT !.deleted = TRUE]
    ELSE [row EXCEPT !.version = last_modified_version, !.sync = "synced"]

\* The rows of `tbl` the deletions phase leaves as the stated policy says.
FollowsPolicy(tbl, after, etype) ==
    \A k \in Tombstoned(etype) :
       LET row == tbl[<<syncer.lib, k>>]
       IN  (row.sync # "absent" /\ ~row.deleted)
              => after[<<syncer.lib, k>>]
                    = PolicyRow(row, syncer.direction, cloud[syncer.lib].version)

\* C16: the deletions phase marks a tombstoned item or collection row deleted
\* if it is synced or the library can download but not upload, and otherwise
\* keeps it not deleted, stamped with the remote version and synced.
C16_DeletionPolicy ==
    [][FollowsPolicy(items, items', "item")
          /\ FollowsPolicy(collections, collections', "collection")]_vars

\* C18: a sync in which an upload of a collection or an item was answered
\* 412 does not reach its commit.
C18_PreconditionFailedAborts ==
    ErrorText(412) \in syncer.logged => syncer.pc # "commit"

\* The item rows of a to_local library with local changes that the remote
\* holds at a higher version.
Outdated ==
    IF syncer.direction = "tolocal"
    THEN {k \in Modified(items, syncer.lib) :
             /\ cloud[syncer.lib].items[k] # NULL
             /\ items[<<syncer.lib, k>>].version < cloud[syncer.lib].items[k]}
    ELSE {}

\* Under to_local the sync sends no upload; its download step replaces
\* every locally modified item row that is behind the remote by the remote
\* data at the remote version, synced; no such row is left when it commits.
ReplacesOutdated ==
    /\ (syncer'.direction = "tolocal"
           /\ syncer'.pc \in {"upload_collection", "upload_item"})
          => syncer'.todo = {}
    /\ (syncer.pc = "get_items" /\ syncer'.pc # "idle")
          => \A k \in Outdated :
                items'[<<syncer.lib, k>>]
                   = EntityRow("synced", cloud[syncer.lib].items[k],
                               cloud[syncer.lib].content[<<"item", k>>])
    /\ (syncer.pc = "commit" /\ quiet = "running") => Outdated = {}

\* C19: remote wins under to_local: every step of a sync keeps the three
\* conditions of ReplacesOutdated.
C19_RemoteWinsUnderToLocal == [][ReplacesOutdated]_vars

\* C19: a to_local sync that replaced a locally modified item row by the
\* remote data is about to commit.
C19_Witness ==
    /\ syncer.pc = "commit"
    /\ syncer.direction = "tolocal"
    /\ quiet = "running"
    /\ \E k \in syncer.replaced :
          /\ items[<<syncer.lib, k>>].sync = "synced"
          /\ items[<<syncer.lib, k>>].data = "remote"
          /\ items[<<syncer.lib, k>>].version = cloud[syncer.lib].items[k]
          /\ items[<<syncer.lib, k>>].version > 0

\* The step sends a remote write of the sync: an upload or a delete of a row.
SendsWrite ==
    /\ syncer.pc \in {"upload_collection", "upload_item"}
    /\ syncer'.todo # syncer.todo
    /\ syncer'.todo \subseteq syncer.todo

\* The step is one of a download phase and changes the local store: rows
\* upserted from remote data, blobs, tags, or tombstones applied.
StoresRemoteData ==
    /\ syncer.pc \in {"get_collections", "get_items", "attachment", "sync_tags",
                       "sync_deleted"}
    /\ syncer' # syncer
    /\ <<items', collections', tags', object_store'>>
          # <<items, collections, tags, object_store>>

\* Writes are sent only under the four uploading directions, remote data are
\* stored only under the four downloading ones, and a write changes the
\* remote library only then.
Gated ==
    /\ SendsWrite
          => syncer.direction \in {"tocloud", "bothcloud", "bothlocal", "bothmanual"}
    /\ StoresRemoteData
          => syncer.direction \in {"tolocal", "bothcloud", "bothlocal", "bothmanual"}
    /\ (syncer.direction = "tolocal" /\ syncer' # syncer) => cloud' = cloud
    /\ (syncer.direction = "tocloud" /\ syncer' # syncer
           /\ syncer.pc \notin {"upload_collection", "upload_item"})
          => UNCHANGED <<items, collections, tags, object_store>>

\* C21: every step of a batch sync is gated by the direction: uploads only
\* under to_cloud and the three both_ directions, downloads only under
\* to_local and the three both_ directions.
C21_DirectionGating == [][Gated]_vars

\* C21: a to_cloud sync that uploaded an item is about to commit.
C21_Witness ==
    /\ syncer.pc = "commit"
    /\ syncer.direction = "tocloud"
    /\ quiet = "running"
    /\ \E k \in Keys : /\ items[<<syncer.lib, k>>].sync = "synced"
                          /\ items[<<syncer.lib, k>>].data = "local"
                          /\ cloud[syncer.lib].content[<<"item", k>>].data = "local"

\* The phase of Library::sync a position belongs to: collections, upload
\* items, download items with the attachments, tags, deletions, commit.
PhaseOf(pc) ==
    CASE pc \in {"sync_collections", "upload_collection", "get_collections"} -> 1
      [] pc \in {"upload_items", "upload_item"} -> 2
      [] pc \in {"list_items", "get_items", "attachment"} -> 3
      [] pc = "sync_tags" -> 4
      [] pc = "sync_deleted" -> 5
      [] pc = "commit" -> 6
      [] OTHER -> 0

\* A step of a running sync.
SyncStep == syncer.pc # "idle" /\ syncer' # syncer

\* The step returns an error from sync.
SyncErrs == SyncStep /\ quiet' = "failed" /\ quiet # "failed"

\* The phases follow each other in their order, each writing its own tables
\* only, and an error ends the sync with nothing more done.
InPhaseOrder ==
    /\ (SyncStep /\ syncer'.pc # "idle") => PhaseOf(syncer'.pc) >= PhaseOf(syncer.pc)
    /\ (syncer.pc = "idle" /\ syncer'.pc # "idle") => PhaseOf(syncer'.pc) = 1
    /\ (SyncStep /\ syncer'.pc = "idle" /\ ~SyncErrs) => PhaseOf(syncer.pc) = 6
    /\ (SyncStep /\ cloud' # cloud) => PhaseOf(syncer.pc) \in {1, 2}
    /\ (SyncStep /\ collections' # collections) => PhaseOf(syncer.pc) \in {1, 5}
    /\ (SyncStep /\ items' # items) => PhaseOf(syncer.pc) \in {2, 3, 5}
    /\ (SyncStep /\ object_store' # object_store) => PhaseOf(syncer.pc) = 3
    /\ (SyncStep /\ tags' # tags) => PhaseOf(syncer.pc) \in {4, 5}
    /\ (SyncStep /\ libraries' # libraries) => PhaseOf(syncer.pc) = 6
    /\ SyncErrs => /\ syncer'.pc = "idle"
                   /\ UNCHANGED <<libraries, items, collections, tags, object_store, cloud>>

\* C28: within one Library::sync the phases run one after the other in the
\* order collections, item upload, item download, tags, deletions, commit,
\* and a phase that returns an error ends the sync: no later phase runs.
C28_PhaseOrder == [][InPhaseOrder]_vars

\* C28: a sync that syncs its tags went through every phase and is at its
\* commit with an item downloaded.
C28_Witness ==
    /\ syncer.pc = "commit"
    /\ syncer.sync_tags
    /\ syncer.fetched # {}

-----------------------------------------------------------------------------
(* Properties of the pull of a library other clients write to: SpecPull *)

\* C17: an item the sync has downloaded and its deletions feed lists is
\* marked deleted by the deletions phase with its version unchanged, and is
\* left so when the sync commits.
C17_TombstoneOverDownload ==
    [][\A k \in syncer.fetched :
          LET row == items[<<syncer.lib, k>>]
          IN  /\ k \in Tombstoned("item")
                    => (/\ items'[<<syncer.lib, k>>].deleted
                        /\ items'[<<syncer.lib, k>>].version = row.version)
              /\ (syncer.pc = "commit" /\ row.deleted)
                    => items'[<<syncer.lib, k>>] = row]_vars

\* C17: the sync is about to commit after it downloaded an item at version 1
\* that was deleted remotely before the deletions feed was read.
C17_Witness ==
    /\ syncer.pc = "commit"
    /\ \E k \in syncer.fetched :
          /\ <<"item", k>> \in cloud[syncer.lib].deleted
          /\ items[<<syncer.lib, k>>].deleted
          /\ items[<<syncer.lib, k>>].version = 1
          /\ cloud[syncer.lib].version = 2

\* The rows of `tbl` are those of the keys the remote holds, at its versions.
Mirrors(tbl, stored, l) ==
    \A k \in Keys :
       /\ (k \in Stored(tbl, l)) = (stored[k] # NULL)
       /\ stored[k] # NULL => tbl[<<l, k>>].version = stored[k]

\* The commit of a sync that began with an empty store and watermarks 0, and
\* during which no other client wrote.
InitialPullCommits ==
    /\ syncer.pc = "commit"
    /\ syncer.from_empty
    /\ quiet = "running"
    /\ Watermarks(libraries[syncer.lib]) = <<0, 0, 0>>

\* C20: the commit of an initial pull finds one collection row per remote
\* collection and one item row per remote item, and stores the remote
\* Last-Modified-Version as collection_version and as item_version.
C20_InitialPull ==
    [][(InitialPullCommits /\ syncer'.pc = "idle") =>
          (/\ Mirrors(items, cloud[syncer.lib].items, syncer.lib)
           /\ Mirrors(collections, cloud[syncer.lib].collections, syncer.lib)
           /\ libraries'[syncer.lib].item_version = cloud[syncer.lib].version
           /\ libraries'[syncer.lib].collection_version = cloud[syncer.lib].version)]_vars

\* C20: an initial pull of a remote library that holds an item and a
\* collection is about to commit.
C20_Witness ==
    /\ InitialPullCommits
    /\ cloud[syncer.lib].version = 2
    /\ \E k \in Keys : cloud[syncer.lib].items[k] # NULL /\ k \in Stored(items, syncer.lib)
    /\ \E k \in Keys : cloud[syncer.lib].collections[k] # NULL
                          /\ k \in Stored(collections, syncer.lib)

-----------------------------------------------------------------------------
(* Properties of one run of the sync binary: SpecBatch *)

\* The run went through to its end and its final deletion succeeded.
RunCompleted ==
    /\ run.pc = "done"
    /\ run.result = "ok"
    /\ ~run.delete_failed

\* C22: at the end of a batch sync the local libraries that were deleted
\* are exactly those absent from the current remote set (the key's user
\* library and the groups the remote lists), whatever synconly excludes.
C22_DeletedIffAbsentRemotely ==
    RunCompleted => run.before \ run.local = run.before \ RemoteSet(run)

\* The libraries the run had to sync: those stored and active when it began
\* that the remote set holds and synconly admits.
ToSync == {l \in run.before \cap run.active \cap RemoteSet(run) : Allowed(run, l)}

\* C24: when the run is over and the listing of the groups did not fail,
\* every allow-listed active library that had no error itself was synced,
\* whatever errors the other libraries had.
C24_LibraryErrorIsolation ==
    (run.pc = "done" /\ ~run.list_failed) => ToSync \ run.errors \subseteq run.synced

-----------------------------------------------------------------------------
(* Properties of clear_local: SpecClear *)

\* clear_local returns, with Ok or with an error.
ClearReturns == syncer.pc \in ClearPositions /\ syncer'.pc = "idle"

\* C23: clear_local is atomic: when it returns, either the library's
\* watermarks are all zero and its items, collections and tags are gone, or
\* its watermarks and rows are those it was entered with.
C23_ClearLocalAtomic ==
    [][ClearReturns =>
          \/ StoredState(syncer.lib)' = <<0, 0, 0, {}, {}, {}>>
          \/ StoredState(syncer.lib)' = syncer.entered]_vars

-----------------------------------------------------------------------------
(* Properties of the ticks of one worker: SpecTick *)

\* process_entry records the failure of the entry at the head of the batch.
RecordsFailure ==
    /\ worker["w1"].pc = "mark"
    /\ worker["w1"].error # "null"
    /\ worker'["w1"].pc # "mark"

\* The failure is recorded against the entry and against no other row.
OnlyThatEntry ==
    LET e == Head(worker["w1"].batch)
    IN  /\ DOMAIN sync_queue' = DOMAIN sync_queue
        /\ \A id \in DOMAIN sync_queue \ {e.id} : sync_queue'[id] = sync_queue[id]
        /\ sync_queue'[e.id].retry_count = sync_queue[e.id].retry_count + 1
        /\ sync_queue'[e.id].last_error = worker["w1"].error
        /\ sync_queue'[e.id].next_retry_at > now
        /\ sync_queue'[e.id].processed_at = sync_queue[e.id].processed_at

\* The worker goes on with the entries that remain in the batch.
GoesOnWithBatch ==
    /\ worker'["w1"].batch = Tail(worker["w1"].batch)
    /\ worker'["w1"].pc = IF Tail(worker["w1"].batch) = << >> THEN "update" ELSE "entry"
    /\ worker'["w1"].libs = worker["w1"].libs

\* process_library returns to process_pending, with Ok or with an error.
LibraryReturns ==
    /\ worker["w1"].pc \in {"library", "fetch_tx", "version", "update"}
    /\ worker'["w1"].pc \in {"library", "idle"}

\* The tick ends only when every library with pending entries was visited.
GoesOnWithLibraries ==
    /\ worker'["w1"].libs \in {worker["w1"].libs} \cup
                                {worker["w1"].libs \ {l} : l \in worker["w1"].libs}
    /\ (worker'["w1"].pc = "idle") = (worker'["w1"].libs = {})

\* C25: a failure of one queue entry changes retry_count, last_error and
\* next_retry_at of that entry and no field of any other entry, the worker
\* goes on with the rest of the batch, and when the processing of a library
\* returns, with an error or not, the libraries still to visit stay to visit.
IsolatesErrors ==
    /\ RecordsFailure => OnlyThatEntry /\ GoesOnWithBatch
    /\ LibraryReturns => GoesOnWithLibraries

C25_EntryErrorIsolation == [][IsolatesErrors]_vars

\* C25: the failure of the first entry of a batch is recorded and the worker
\* is going on with the next entry.
C25_Witness ==
    /\ worker["w1"].pc = "entry"
    /\ \E id \in DOMAIN sync_queue :
          /\ sync_queue[id].retry_count = 1
          /\ LibOf(sync_queue[id]) = worker["w1"].lib
          /\ id # Head(worker["w1"].batch).id

-----------------------------------------------------------------------------
(* Properties of one remote write: SpecWrite *)

\* The response is a rate-limit response.
RateLimited == call.status \in {429, 503} \/ call.headers.retry_after # << >>

\* C26: a remote write answered with 429, 503 or a Retry-After header has
\* sent its request again when it returns, and does not return the
\* rate-limit error.
C26_RateLimitRetried ==
    (call.pc = "returned" /\ call.sends > 0 /\ call.result.error # "http" /\ RateLimited)
       => /\ call.sends > 1
          /\ call.result.error \notin {"api_429", "api_503"}

\* C30: an upload sent with the precondition version v returns, for 200 and
\* 201, the Last-Modified-Version of the response or v + 1 without that
\* header; for 304, v; for 412 and every other status an error.
C30_WriteResult ==
    (call.pc = "returned" /\ call.op \in UploadOps /\ call.result.error # "http")
       => CASE call.status \in {200, 201} ->
                 /\ call.result.ok
                 /\ call.result.version = IF call.headers.lmv = << >>
                                          THEN call.library_version + 1
                                          ELSE call.headers.lmv[1]
            [] call.status = 304 ->
                 call.result.ok /\ call.result.version = call.library_version
            [] OTHER ->
                 ~call.result.ok /\ call.result.error # "null"

\* C30: an upload answered 201 without the header has returned v + 1.
C30_Witness ==
    /\ call.pc = "returned"
    /\ call.op \in UploadOps
    /\ call.status = 201
    /\ call.headers.lmv = << >>
    /\ call.result.ok
    /\ call.result.version = call.library_version + 1

-----------------------------------------------------------------------------
(* Properties of the sync of a library holding incomplete rows: SpecRetry *)

\* The rows of the syncing library marked incomplete.
Incomplete(tbl) == {k \in Keys : tbl[<<syncer.lib, k>>].sync = "incomplete"}

\* C27: a sync that uploads and commits with no error logged has retried
\* the rows that were incomplete: none is left incomplete.
C27_IncompleteRetried ==
    (syncer.pc = "commit" /\ can_upload(syncer.direction) /\ syncer.logged = {})
       => Incomplete(items) \cup Incomplete(collections) = {}

-----------------------------------------------------------------------------
(* Properties of the order within a batch: SpecPartition *)

\* The worker starts processing the entry at the head of its batch.
ProcessesHead == worker["w1"].pc = "entry" /\ worker'["w1"].pc = "mark"

\* The entity types of the entries of the batch, in their order.
TypesOf(batch) == [i \in 1..Len(batch) |-> batch[i].entity_type]

\* C29: when the worker processes an item entry, no collection entry of the
\* fetched batch is still to process, in whatever order fetch_pending
\* returned the entries.
C29_CollectionsFirst ==
    [][(ProcessesHead /\ Head(worker["w1"].batch).entity_type = "item")
          => \A i \in 1..Len(worker["w1"].batch) :
                TypesOf(worker["w1"].batch)[i] # "collection"]_vars

\* C29: a collection entry is processed while an item entry of higher
\* priority, which fetch_pending returned before it, waits in the batch.
C29_Witness ==
    /\ worker["w1"].pc = "mark"
    /\ Len(worker["w1"].batch) > 1
    /\ Head(worker["w1"].batch).entity_type = "collection"
    /\ worker["w1"].batch[2].entity_type = "item"
    /\ worker["w1"].batch[2].priority > Head(worker["w1"].batch).priority

\* The worker is inside a batch before and after the step.
InBatch ==
    /\ worker["w1"].pc \in {"entry", "mark"}
    /\ worker'["w1"].pc \in {"entry", "mark", "update"}

\* The version the next write of the batch will carry, after a write: the
\* Last-Modified-Version the remote returned if it succeeded, the version
\* this write carried if it failed.
CarriesOn ==
    LET w == worker["w1"]
        after == worker'["w1"]
    IN  IF ProcessesHead /\ after.sent
        THEN after.library_version =
                IF after.error = "null" THEN cloud'[w.lib].version
                ELSE w.library_version
        ELSE after.library_version = w.library_version

ProcessesDelete == ProcessesHead /\ Head(worker["w1"].batch).operation = "delete"

\* The entry at the head of the batch is marked, after its processing.
MarksHead == worker["w1"].pc = "mark" /\ worker'["w1"].pc # "mark"

\* The remote library holds a tombstone of the entry's entity.
RemotelyDeleted(c, e) == <<e.entity_type, e.entity_key>> \in c[LibOf(e)].deleted

\* A delete entry: the remote delete failed and nothing changed locally, or
\* it succeeded, the remote holds the tombstone at the version now tracked
\* and the local row is gone; the entry is marked failed after the one and
\* completed after the other.
DeletesRemoteFirst ==
    LET e == Head(worker["w1"].batch)
        k == <<LibOf(e), e.entity_key>>
        after == worker'["w1"]
    IN  /\ ProcessesDelete =>
              IF after.error # "null"
              THEN /\ UNCHANGED <<items, collections, cloud>>
                   /\ after.library_version = worker["w1"].library_version
              ELSE /\ RemotelyDeleted(cloud', e)
                   /\ after.library_version = cloud'[LibOf(e)].version
                   /\ (IF e.entity_type = "item" THEN items'[k] ELSE collections'[k]) = NoRow
        /\ (MarksHead /\ e.operation = "delete") =>
              IF worker["w1"].error # "null"
              THEN /\ sync_queue'[e.id].retry_count = sync_queue[e.id].retry_count + 1
                   /\ sync_queue'[e.id].processed_at = sync_queue[e.id].processed_at
              ELSE sync_queue'[e.id].processed_at # NULL

\* C32: for a delete entry the worker removes the local row only after the
\* remote delete has succeeded; when the remote delete fails the local row
\* and the tracked version are unchanged and the entry is marked failed.
C32_RemoteDeleteFirst == [][DeletesRemoteFirst]_vars

\* C32: the remote delete of an entity that has a local row has failed and
\* the row is still there.
C32_Witness ==
    /\ worker["w1"].pc = "mark"
    /\ worker["w1"].error # "null"
    /\ Head(worker["w1"].batch).operation = "delete"
    /\ Head(worker["w1"].batch).entity_type = "item"
    /\ items[<<LibOf(Head(worker["w1"].batch)), Head(worker["w1"].batch).entity_key>>].sync
          # "absent"

-----------------------------------------------------------------------------
(* Properties of the cleanup of the queue: SpecCleanup *)

\* A row leaves the queue.
RemovesRows == DOMAIN sync_queue' # DOMAIN sync_queue /\ next_id' = next_id

\* The retention window has passed for a row processed at t.
PastRetention(t) == t + DayMinutes * CleanupDays < now

\* Every row that leaves the queue was processed longer ago than the
\* retention window, and the rows that stay are unchanged.
RemovesOnlyOld ==
    RemovesRows =>
       /\ DOMAIN sync_queue' \subseteq DOMAIN sync_queue
       /\ \A id \in DOMAIN sync_queue \ DOMAIN sync_queue' :
             /\ sync_queue[id].processed_at # NULL
             /\ PastRetention(sync_queue[id].processed_at)
       /\ \A id \in DOMAIN sync_queue' : sync_queue'[id] = sync_queue[id]

\* C33: cleanup deletes only entries whose processed_at is set and older
\* than the retention window: no pending or retry-exhausted entry and no
\* entry processed within the window leaves the queue.
C33_CleanupOnlyOldProcessed == [][RemovesOnlyOld]_vars

\* C33: a cleanup has removed an old processed row and left a row that is
\* not processed.
C33_Witness ==
    /\ next_id = 3
    /\ DOMAIN sync_queue # {}
    /\ DOMAIN sync_queue # 1..2
    /\ \A id \in DOMAIN sync_queue : sync_queue[id].processed_at = NULL

(***************************************************************************)
(* Libraries created by a batch run: SpecBatch                             *)
(***************************************************************************)

\* The groups of the remote listing that synconly admits.
AdmittedGroups == {g \in run.remote : Allowed(run, g)}

\* Library::sync was invoked for l in this run (it went well or its error
\* was logged).
SyncInvoked(l) == l \in run.synced \cup run.errors

\* C34: when a batch run has gone through all its libraries, every remote
\* group that synconly admits has a local row, and sync was invoked in this
\* run for each of them whose row is active, the rows created in this run
\* included.
C34_CreatedThenSynced ==
    (run.pc = "done" /\ run.result = "ok") =>
       \A g \in AdmittedGroups :
          /\ g \in run.local
          /\ g \in run.active => SyncInvoked(g)

(***************************************************************************)
(* The end of the worker's run loop: SpecShutdown                          *)
(***************************************************************************)

\* The worker is between two iterations, waiting for the next tick.
AtTickBoundary == worker["w1"].pc = "idle"

\* C35: the run loop ends on the shutdown signal at a tick boundary only,
\* the iteration in flight having completed, and a stopped worker starts no
\* further process_pending.
C35_StopsAtTickBoundary ==
    [][/\ (worker'["w1"].pc = "stopped" /\ worker["w1"].pc # "stopped") => AtTickBoundary
       /\ worker["w1"].pc = "stopped" => worker'["w1"].pc = "stopped"]_vars

(***************************************************************************)
(* The stored item_version under several workers: Spec                     *)
(***************************************************************************)

\* C36: whatever the interleaving of the workers on a library, the
\* item_version stored for it never decreases.
C36_ItemVersionMonotone ==
    [][\A l \in Libs : libraries'[l].item_version >= libraries[l].item_version]_vars

(***************************************************************************)
(* The marking of the fetched entries: SpecTick                            *)
(***************************************************************************)

\* The batch of the worker ends: process_library returns.
BatchEnds ==
    /\ worker["w1"].pc \in {"version", "entry", "mark", "update"}
    /\ worker'["w1"].pc \in {"library", "idle"}

\* The entry at the head of the batch leaves it, marked completed when
\* its processing had no error and marked failed when it had one.
MarkedOnce ==
    LET e == Head(worker["w1"].batch)
    IN  /\ worker["w1"].pc = "mark"
        /\ sync_queue' = IF worker["w1"].error = "null"
                         THEN mark_completed(sync_queue, now, e.id)
                         ELSE mark_failed(sync_queue, now, e.id, worker["w1"].error)

\* C37: every fetched entry leaves the batch by exactly one call of
\* mark_completed or mark_failed, mark_completed when its processing
\* succeeded, and no entry is left unmarked when the batch ends.
EveryEntryMarked ==
    /\ (worker["w1"].pc \in {"version", "entry", "mark", "update"}
          /\ worker'["w1"].batch # worker["w1"].batch
          /\ worker["w1"].pc # "version")
         => worker'["w1"].batch = Tail(worker["w1"].batch) /\ MarkedOnce
    /\ BatchEnds => worker["w1"].batch = << >>

C37_ExactlyOneMark == [][EveryEntryMarked]_vars

(***************************************************************************)
(* The failure of an upload in a batch sync: SpecQuiet                     *)
(***************************************************************************)

\* The upload phase of table tbl, at position pc, has a remote write for
\* the new or modified row k refused: the remote library is as it was.
UploadFails(pc, tbl, k) ==
    /\ syncer.pc = pc
    /\ k \in syncer.todo
    /\ k \notin syncer'.todo
    /\ ~tbl[<<syncer.lib, k>>].deleted
    /\ cloud' = cloud

\* The row is as it was, the version the next write is conditioned on is
\* not advanced, and the row is one the upload phase of a sync selects.
NothingChanged(tbl, after, k) ==
    /\ after[<<syncer.lib, k>>] = tbl[<<syncer.lib, k>>]
    /\ syncer'.last_modified_version = syncer.last_modified_version
    /\ k \in Modified(after, syncer.lib)

\* C38: a failed upload of a new or modified item or collection leaves its
\* row with the same sync status, version and data, does not advance the
\* upload baseline, and leaves the row selected for upload.
FailedUploadFrame ==
    \A k \in Keys :
       /\ UploadFails("upload_item", items, k) => NothingChanged(items, items', k)
       /\ UploadFails("upload_collection", collections, k)
             => NothingChanged(collections, collections', k)

DownloadsAfterUpload ==
    /\ syncer.pc = "get_items"
    /\ can_upload(syncer.direction)
    /\ can_download(syncer.direction)
    /\ items' # items

\* C39: in a sync that can upload and download, the download phase leaves
\* every locally modified item whose upload failed with its local data and
\* its unsynced status.
C39_DownloadKeepsUnsynced ==
    [][DownloadsAfterUpload =>
          \A k \in Modified(items, syncer.lib) :
             items'[<<syncer.lib, k>>] = items[<<syncer.lib, k>>]]_vars

(***************************************************************************)
(* Progress of the queue: SpecProgress                                     *)
(***************************************************************************)

\* The entry is in the queue and is neither processed nor out of retries.
Unprocessed(id) ==
    /\ id \in DOMAIN sync_queue
    /\ sync_queue[id].processed_at = NULL
    /\ sync_queue[id].retry_count < sync_queue[id].max_retries

\* processed_at is set or retry_count has reached max_retries.
Terminal(id) ==
    /\ id \in DOMAIN sync_queue
    /\ \/ sync_queue[id].processed_at # NULL
       \/ sync_queue[id].retry_count >= sync_queue[id].max_retries

====
